---- MODULE Spec2Model ----
(***************************************************************************)
(* Multi-run consensus and disagreement reconciliation of ian-avalanche:   *)
(* src/src/aggregation.py (normalisers, aggregate_runs,                    *)
(* harmonize_locations) and the repair loop of                             *)
(* src/src/run_batch_pipeline.py (run_pipeline).                           *)
(*                                                                         *)
(* Representation.                                                         *)
(*  - A Python str that the code inspects (Location, ValueText) is a       *)
(*    sequence of word tokens; " " is a token of its own and stands for    *)
(*    one whitespace character, so strip(), startswith(), lower() and the  *)
(*    elevation regex are computed on the sequence as the code computes    *)
(*    them on characters.  "" is <<>>.                                     *)
(*  - A Python str that the code only compares (Section, MeasurementType,  *)
(*    file names, hour labels, issue reasons) is a TLA+ string.            *)
(*  - A float is a fixed-point integer counting units of 5e-7, so that     *)
(*    the 1e-6 guard of aggregation.py:173 is EPSILON = 2 units and        *)
(*    1.0 is One units.  Input values are multiples of 0.5, for which      *)
(*    Python's float arithmetic and round() are exact.                     *)
(*  - ValueNumeric is a tagged value [kind, val]: "num" (a number),        *)
(*    "blank" (""), "none" (None) or "str" (a string float() rejects).     *)
(***************************************************************************)
EXTENDS Integers, Sequences, FiniteSets, TLC

(***************************************************************************)
(* str helpers                                                             *)
(***************************************************************************)
WS == " "

RECURSIVE LStrip(_)
LStrip(s) == IF s # <<>> /\ Head(s) = WS THEN LStrip(Tail(s)) ELSE s

RECURSIVE RStrip(_)
RStrip(s) ==
    IF s # <<>> /\ s[Len(s)] = WS THEN RStrip(SubSeq(s, 1, Len(s) - 1)) ELSE s

\* str.strip()
Strip(s) == RStrip(LStrip(s))

\* str.lower() on one word token
LowerTok(t) ==
    CASE t = "Unknown" -> "unknown"
      [] t = "UNKNOWN" -> "unknown"
      [] t = "N/A"     -> "n/a"
      [] t = "NA"      -> "na"
      [] t = "None"    -> "none"
      [] t = "NONE"    -> "none"
      [] t = "No"      -> "no"
      [] t = "Precip"  -> "precip"
      [] t = "Rain"    -> "rain"
      [] t = "Snow"    -> "snow"
      [] t = "Wind"    -> "wind"
      [] t = "Ben"     -> "ben"
      [] t = "Nevis"   -> "nevis"
      [] t = "Cairn"   -> "cairn"
      [] t = "Gorm"    -> "gorm"
      [] OTHER         -> t

\* str.lower()
Lower(s) == [i \in 1..Len(s) |-> LowerTok(s[i])]

\* str.startswith(p)
StartsWith(s, p) == Len(s) >= Len(p) /\ SubSeq(s, 1, Len(p)) = p

\* \d+ : a token made of decimal digits
DigitTokens == {"1345", "1245", "12"}

(***************************************************************************)
(* aggregation.py, module constants                                        *)
(***************************************************************************)
LOCATION_PREFIXES ==
    << <<"Wind", " ", "-", " ">>,
       <<"Precipitation", " ", "-", " ">>,
       <<"Weather", " ", "and", " ", "Precipitation", " ", "-", " ">>,
       <<"Weather", " ", "&", " ", "Precipitation", " ", "-", " ">>,
       <<"Temperature", " ", "-", " ">> >>

LOCATION_PLACEHOLDER_VALUES ==
    { <<>>, <<"unknown">>, <<"n/a">>, <<"na">>, <<"none">> }

NoPrecip == <<"No", " ", "Precip">>

\* the keys of PRECIP_TYPE_ALIASES; every one of them maps to "No Precip"
PRECIP_TYPE_ALIASES ==
    { <<"None">>, <<"none">>, <<"No", " ", "precip">>, <<"no", " ", "precip">> }

(***************************************************************************)
(* normalize_location_string                                               *)
(***************************************************************************)
\* a variant of StripFirstPrefix: the loop over the prefixes has no break
RECURSIVE StripFirstPrefix_NoBreak(_, _)
StripFirstPrefix_NoBreak(s, i) ==
    IF i > Len(LOCATION_PREFIXES) THEN s
    ELSE IF StartsWith(s, LOCATION_PREFIXES[i])
         THEN StripFirstPrefix_NoBreak(SubSeq(s, Len(LOCATION_PREFIXES[i]) + 1, Len(s)), i + 1)
         ELSE StripFirstPrefix_NoBreak(s, i + 1)

\* for prefix in LOCATION_PREFIXES: if startswith: cut it; break
RECURSIVE StripFirstPrefix(_, _)
StripFirstPrefix(s, i) ==
    IF i > Len(LOCATION_PREFIXES) THEN s
    ELSE IF StartsWith(s, LOCATION_PREFIXES[i])
         THEN SubSeq(s, Len(LOCATION_PREFIXES[i]) + 1, Len(s))
         ELSE StripFirstPrefix(s, i + 1)

\* the start of the match of \((\d+)\s*m\)$ in s, or 0 when there is none
ElevationMatch(s) ==
    LET n == Len(s)
        starts == { j \in 1..(n - 3) :
                      /\ s[j] = "("
                      /\ s[j + 1] \in DigitTokens
                      /\ \A i \in (j + 2)..(n - 2) : s[i] = WS
                      /\ s[n - 1] = "m"
                      /\ s[n] = ")" }
    IN IF starts = {} THEN 0 ELSE CHOOSE j \in starts : \A k \in starts : j <= k

\* re.sub(r"\((\d+)\s*m\)$", "(\1 metres)", s)
RewriteElevation(s) ==
    LET j == ElevationMatch(s)
    IN IF j = 0 THEN s
       ELSE SubSeq(s, 1, j - 1) \o <<"(", s[j + 1], " ", "metres", ")">>

normalize_location_string(value) ==
    LET stripped == Strip(value)
    IN IF Lower(stripped) \in LOCATION_PLACEHOLDER_VALUES THEN <<>>
       ELSE RewriteElevation(Strip(StripFirstPrefix(stripped, 1)))

(***************************************************************************)
(* normalize_precip_type, normalize_text_value                             *)
(***************************************************************************)
\* a variant of normalize_precip_type: what is no alias is lower-cased
normalize_precip_type_Lowered(value) ==
    LET stripped == Strip(value)
    IN IF stripped = <<>> THEN <<>>
       ELSE IF stripped \in PRECIP_TYPE_ALIASES THEN NoPrecip
       ELSE IF Lower(stripped) \in PRECIP_TYPE_ALIASES THEN NoPrecip
       ELSE Lower(stripped)

normalize_precip_type(value) ==
    LET stripped == Strip(value)
    IN IF stripped = <<>> THEN <<>>
       ELSE IF stripped \in PRECIP_TYPE_ALIASES THEN NoPrecip
       ELSE IF Lower(stripped) \in PRECIP_TYPE_ALIASES THEN NoPrecip
       ELSE stripped

normalize_text_value(section, measurement_type, value) ==
    LET raw == Strip(value)
    IN IF section = "Precip" /\ measurement_type = "Type"
       THEN normalize_precip_type(raw)
       ELSE raw

(***************************************************************************)
(* numbers                                                                 *)
(***************************************************************************)
\* the 1e-6 of "tolerance + 1e-6", in units of 5e-7
EPSILON == 2

\* 1.0 in the same units
One == 1000000 * EPSILON

\* Python's round(): to the nearest multiple of m, ties to the even multiple
RoundHalfEven(x, m) ==
    LET q == x \div m
        r == x % m
    IN IF 2 * r < m THEN q * m
       ELSE IF 2 * r > m THEN (q + 1) * m
       ELSE IF q % 2 = 0 THEN q * m
       ELSE (q + 1) * m

format_numeric_value(section, measurement_type, value) ==
    IF section = "Wind" THEN RoundHalfEven(value, One)
    ELSE IF section = "Precip" THEN RoundHalfEven(value, One \div 10)
    ELSE IF section = "Temperature"
         THEN IF measurement_type = "AirTemp_C"
              THEN RoundHalfEven(value, One \div 10)
              ELSE RoundHalfEven(value, 10 * One)
    ELSE RoundHalfEven(value, One \div 100)

\* sorted(data)
RECURSIVE InsertSorted(_, _)
InsertSorted(x, s) ==
    IF s = <<>> THEN <<x>>
    ELSE IF x < Head(s) THEN <<x>> \o s
    ELSE <<Head(s)>> \o InsertSorted(x, Tail(s))

RECURSIVE SortNums(_)
SortNums(s) == IF s = <<>> THEN <<>> ELSE InsertSorted(Head(s), SortNums(Tail(s)))

RECURSIVE SumOf(_)
SumOf(s) == IF s = <<>> THEN 0 ELSE Head(s) + SumOf(Tail(s))

\* a variant of Median: the mean
Median_Mean(data) == SumOf(data) \div Len(data)

\* statistics.median(data), data non-empty
Median(data) ==
    LET sorted == SortNums(data)
        n == Len(sorted)
    IN IF n % 2 = 1 THEN sorted[(n \div 2) + 1]
       ELSE (sorted[n \div 2] + sorted[(n \div 2) + 1]) \div 2

\* max(data), min(data)
MaxOf(data) == CHOOSE x \in {data[i] : i \in DOMAIN data} :
                   \A i \in DOMAIN data : data[i] <= x
MinOf(data) == CHOOSE x \in {data[i] : i \in DOMAIN data} :
                   \A i \in DOMAIN data : x <= data[i]

(***************************************************************************)
(* collections.Counter                                                     *)
(***************************************************************************)
CountOf(items, x) == Cardinality({i \in DOMAIN items : items[i] = x})

\* a variant of MostCommon: among equal counts, the value counted last
MostCommon_LastOfTies(items) ==
    LET best == CHOOSE i \in DOMAIN items :
                  /\ \A j \in DOMAIN items :
                        CountOf(items, items[j]) <= CountOf(items, items[i])
                  /\ \A j \in (i + 1)..Len(items) :
                        CountOf(items, items[j]) < CountOf(items, items[i])
    IN items[best]

\* Counter(items).most_common(1)[0][0]: the highest count, the value counted
\* first among equals; items non-empty
MostCommon(items) ==
    LET best == CHOOSE i \in DOMAIN items :
                  /\ \A j \in DOMAIN items :
                        CountOf(items, items[j]) <= CountOf(items, items[i])
                  /\ \A j \in 1..(i - 1) :
                        CountOf(items, items[j]) < CountOf(items, items[i])
    IN items[best]

\* list(Counter(items).keys()): the distinct values in first-seen order
RECURSIVE CounterKeysFrom(_, _)
CounterKeysFrom(items, i) ==
    IF i > Len(items) THEN <<>>
    ELSE IF \E j \in 1..(i - 1) : items[j] = items[i]
         THEN CounterKeysFrom(items, i + 1)
         ELSE <<items[i]>> \o CounterKeysFrom(items, i + 1)

CounterKeys(items) == CounterKeysFrom(items, 1)

(***************************************************************************)
(* DataPointKey, Record                                                    *)
(***************************************************************************)
\* the strings that occur in keys, in Python's str order (by code point)
StrOrder ==
    << "18:00", "19:00", "20:00", "6pm", "AirTemp_C", "Base_m", "Cloud",
       "CloudBase", "Direction", "FreezingLevel", "FreezingLevel_m", "Gust",
       "Precip", "Precipitation", "Rain", "Snow", "Speed", "Temperature",
       "Type", "WBFL_m", "WetBulbFreezingLevel", "Wind", "a.pdf", "b.pdf" >>

StrRank(s) == CHOOSE i \in DOMAIN StrOrder : StrOrder[i] = s

\* one component of a key tuple as an integer that orders like Python does:
\* components 2 (Page) and 6 (HourIndex) are ints, the others are strs
KeyComp(k, i) == IF i \in {2, 6} THEN k[i] ELSE StrRank(k[i])

\* k1 < k2 for tuples (lexicographic)
KeyLess(k1, k2) ==
    \E i \in 1..7 :
        /\ \A j \in 1..(i - 1) : KeyComp(k1, j) = KeyComp(k2, j)
        /\ KeyComp(k1, i) < KeyComp(k2, i)

\* sorted(keys)
RECURSIVE SortedKeys(_)
SortedKeys(keys) ==
    IF keys = {} THEN <<>>
    ELSE LET least == CHOOSE k \in keys : \A o \in keys \ {k} : KeyLess(k, o)
         IN <<least>> \o SortedKeys(keys \ {least})

\* ValueNumeric
NumVal(n) == [kind |-> "num", val |-> n]
BlankNum == [kind |-> "blank", val |-> 0]
NoneNum == [kind |-> "none", val |-> 0]
BadNum == [kind |-> "str", val |-> 0]

\* the Record a run holds for key k; the key is built from the record's own
\* fields (run_batch_pipeline.py:477-485), so the two agree
MkRow(k, location, value_numeric, value_text, units, notes) ==
    [ SourceFile |-> k[1], Page |-> k[2], Section |-> k[3],
      Measurement |-> k[4], MeasurementType |-> k[5], HourIndex |-> k[6],
      HourLabel |-> k[7], Location |-> location,
      ValueNumeric |-> value_numeric, ValueText |-> value_text,
      Units |-> units, Notes |-> notes ]

\* graph_key = (SourceFile, Page, Section)
GraphKey(row) == <<row.SourceFile, row.Page, row.Section>>

(***************************************************************************)
(* Tolerance lookup (aggregation.py:160-162).  A table is a function from  *)
(* a set of <<section, name>> pairs to numbers.                            *)
(***************************************************************************)
\* a variant of ResolveTolerance: "tolerances.get(...) or ...", which takes
\* an entry of 0 for no entry
ResolveTolerance_ZeroIsAbsent(tols, default, section, measurement, measurement_type) ==
    IF <<section, measurement_type>> \in DOMAIN tols
       /\ tols[<<section, measurement_type>>] # 0
    THEN tols[<<section, measurement_type>>]
    ELSE IF <<section, measurement>> \in DOMAIN tols
         THEN tols[<<section, measurement>>]
         ELSE default

ResolveTolerance(tols, default, section, measurement, measurement_type) ==
    IF <<section, measurement_type>> \in DOMAIN tols
    THEN tols[<<section, measurement_type>>]
    ELSE IF <<section, measurement>> \in DOMAIN tols
         THEN tols[<<section, measurement>>]
         ELSE default

(***************************************************************************)
(* aggregate_runs: the body of the loop over the keys                      *)
(***************************************************************************)
\* the positions 1..n that satisfy Test, ascending
Positions(n, Test(_)) == SelectSeq([i \in 1..n |-> i], Test)

\* run_map.get(key) is a row (rows are non-empty dicts, so truthy)
HasRow(maps, i, key) == key \in DOMAIN maps[i]

\* a variant of CombinedKeys: the keys of the first RunMap only
CombinedKeys_FirstRun(maps) == DOMAIN maps[1]

\* combined_keys
CombinedKeys(maps) == UNION {DOMAIN maps[i] : i \in DOMAIN maps}

\* available_rows, as the positions of their runs
Available(maps, key) == Positions(Len(maps), LAMBDA i : HasRow(maps, i, key))

\* a variant of MissingRuns: the test inverted
MissingRuns_Present(maps, key) ==
    LET pos == Positions(Len(maps), LAMBDA i : HasRow(maps, i, key))
    IN [p \in 1..Len(pos) |-> pos[p] - 1]

\* a variant of MissingRuns: a run without any record is not counted
MissingRuns_NonEmpty(maps, key) ==
    LET pos == Positions(Len(maps), LAMBDA i : ~HasRow(maps, i, key) /\ DOMAIN maps[i] # {})
    IN [p \in 1..Len(pos) |-> pos[p] - 1]

\* a variant of MissingRuns: the runs counted from 1
MissingRuns_FromOne(maps, key) == Positions(Len(maps), LAMBDA i : ~HasRow(maps, i, key))

\* missing_runs (line 121); enumerate() counts from 0
MissingRuns(maps, key) ==
    LET pos == Positions(Len(maps), LAMBDA i : ~HasRow(maps, i, key))
    IN [p \in 1..Len(pos) |-> pos[p] - 1]

\* location_candidates (lines 125-127): the rows are picked by their raw
\* Location, stripped; the candidates are the normalised Locations
LocationCandidates(maps, key) ==
    LET pos == SelectSeq(Available(maps, key),
                         LAMBDA i : Strip(maps[i][key].Location) # <<>>)
    IN [p \in 1..Len(pos) |-> normalize_location_string(maps[pos[p]][key].Location)]

\* the runs whose row yields a non-empty normalised text (lines 142-148)
TextPositions(maps, key, section, measurement_type) ==
    SelectSeq(Available(maps, key), LAMBDA i :
        normalize_text_value(section, measurement_type, maps[i][key].ValueText) # <<>>)

\* the runs whose row yields a float (lines 149-155)
NumericPositions(maps, key) ==
    SelectSeq(Available(maps, key), LAMBDA i : maps[i][key].ValueNumeric.kind = "num")

\* a variant of ValueBranch: the numeric test first
ValueBranch_NumericFirst(text_values, numeric_values) ==
    IF numeric_values # <<>> THEN "numeric"
    ELSE IF text_values # <<>> THEN "text"
    ELSE "fallback"

\* if text_values: ... elif numeric_values: ... else: ...
ValueBranch(text_values, numeric_values) ==
    IF text_values # <<>> THEN "text"
    ELSE IF numeric_values # <<>> THEN "numeric"
    ELSE "fallback"

\* a variant of ExceedsTolerance: no 1e-6 guard
ExceedsTolerance_NoGuard(numeric_values, tolerance) ==
    /\ Len(numeric_values) >= 2
    /\ MaxOf(numeric_values) - MinOf(numeric_values) > tolerance

\* lines 172-173
ExceedsTolerance(numeric_values, tolerance) ==
    /\ Len(numeric_values) >= 2
    /\ MaxOf(numeric_values) - MinOf(numeric_values) > tolerance + EPSILON

\* enumerate() counts the runs from 0
RunsOf(pos) == [p \in 1..Len(pos) |-> pos[p] - 1]

\* text_values (line 147)
TextValues(maps, key, section, measurement_type, text_pos) ==
    [p \in 1..Len(text_pos) |->
        normalize_text_value(section, measurement_type, maps[text_pos[p]][key].ValueText)]

\* numeric_values (line 152)
NumericValues(maps, key, num_pos) ==
    [p \in 1..Len(num_pos) |-> maps[num_pos[p]][key].ValueNumeric.val]

\* lines 122-123
MissingIssue(missing_runs) ==
    IF missing_runs # <<>>
    THEN << [reason |-> "missing_runs", runs |-> missing_runs] >>
    ELSE <<>>

\* final_location (lines 128-131)
FinalLocation(location_candidates) ==
    IF location_candidates # <<>> THEN MostCommon(location_candidates) ELSE <<>>

\* lines 132-133, on list(counts.keys())
LocationIssue(keys) ==
    IF Len(keys) > 1
    THEN << [reason |-> "location_mismatch", locations |-> keys] >>
    ELSE <<>>

\* lines 167-168, on list(counts.keys())
TextIssue(keys, text_runs) ==
    IF Len(keys) > 1
    THEN << [reason |-> "text_mismatch", values |-> keys, runs |-> text_runs] >>
    ELSE <<>>

\* final_text (lines 158, 166, 184)
FinalText(branch, sample, text_values) ==
    IF branch = "text" THEN MostCommon(text_values)
    ELSE IF branch = "numeric" THEN <<>>
    ELSE normalize_text_value(sample.Section, sample.MeasurementType, sample.ValueText)

\* a variant of FinalNumeric: the fallback leaves ValueNumeric blank
FinalNumeric_Blank(branch, sample, numeric_values) ==
    IF branch = "numeric"
    THEN NumVal(format_numeric_value(sample.Section, sample.MeasurementType,
                                     Median(numeric_values)))
    ELSE BlankNum

\* final_numeric (lines 157, 170-171, 183)
FinalNumeric(branch, sample, numeric_values) ==
    IF branch = "text" THEN BlankNum
    ELSE IF branch = "numeric"
         THEN NumVal(format_numeric_value(sample.Section, sample.MeasurementType,
                                          Median(numeric_values)))
    \* sample.get("ValueNumeric") or ""
    ELSE IF sample.ValueNumeric.kind = "str" THEN sample.ValueNumeric
    ELSE BlankNum

\* a variant of ValueIssue: the numeric and fallback branches are looked at
\* after the text branch too
ValueIssue_FallThrough(branch, text_values, text_runs, numeric_values, numeric_runs, tolerance) ==
    (IF branch = "text" THEN TextIssue(CounterKeys(text_values), text_runs) ELSE <<>>)
    \o (IF numeric_values # <<>>
        THEN IF ExceedsTolerance(numeric_values, tolerance)
             THEN << [reason |-> "numeric_variation",
                      values |-> numeric_values,
                      runs |-> numeric_runs,
                      tolerance |-> tolerance] >>
             ELSE <<>>
        ELSE << [reason |-> "missing_values"] >>)

\* the issue of the branch taken (lines 164-185)
ValueIssue(branch, text_values, text_runs, numeric_values, numeric_runs, tolerance) ==
    IF branch = "text"
    THEN TextIssue(CounterKeys(text_values), text_runs)
    ELSE IF branch = "numeric"
    THEN IF ExceedsTolerance(numeric_values, tolerance)
         THEN << [reason |-> "numeric_variation",
                  values |-> numeric_values,
                  runs |-> numeric_runs,
                  tolerance |-> tolerance] >>
         ELSE <<>>
    ELSE << [reason |-> "missing_values"] >>

\* merged_row (lines 187-190)
MergedRow(sample, final_location, final_numeric, final_text) ==
    [sample EXCEPT !.Location = final_location,
                   !.ValueNumeric = final_numeric,
                   !.ValueText = normalize_text_value(sample.Section,
                                     sample.MeasurementType, final_text)]

\* what one turn of the loop yields: the key, final_rows[key], the issues and
\* the entry that disagreements gets when there are issues (lines 191-212)
Outcome(key, sample, merged_row, issues) ==
    [ key |-> key,
      row |-> merged_row,
      issues |-> issues,
      entry |-> [ key |-> << sample.SourceFile, sample.Page, sample.Section,
                             sample.Measurement, sample.MeasurementType,
                             sample.HourIndex, sample.HourLabel >>,
                  graph |-> GraphKey(sample),
                  issues |-> issues ] ]

\* lines 157-212, the branch known; g holds what lines 121-162 gathered
ReconcileBranch(key, sample, g, branch) ==
    Outcome(key, sample,
            MergedRow(sample, FinalLocation(g.location_candidates),
                      FinalNumeric(branch, sample, g.numeric_values),
                      FinalText(branch, sample, g.text_values)),
            MissingIssue(g.missing_runs)
                \o LocationIssue(CounterKeys(g.location_candidates))
                \o ValueIssue(branch, g.text_values, g.text_runs, g.numeric_values,
                              g.numeric_runs, g.tolerance))

\* lines 157-212
ReconcileValues(key, sample, g) ==
    ReconcileBranch(key, sample, g, ValueBranch(g.text_values, g.numeric_values))

\* lines 119-212, the sample known
ReconcileSample(maps, tols, default, key, sample, text_pos, num_pos) ==
    ReconcileValues(key, sample,
        [ missing_runs |-> MissingRuns(maps, key),
          location_candidates |-> LocationCandidates(maps, key),
          text_values |-> TextValues(maps, key, sample.Section,
                                     sample.MeasurementType, text_pos),
          text_runs |-> RunsOf(text_pos),
          numeric_values |-> NumericValues(maps, key, num_pos),
          numeric_runs |-> RunsOf(num_pos),
          tolerance |-> ResolveTolerance(tols, default, sample.Section,
                                         sample.Measurement, sample.MeasurementType) ])

\* lines 114-212, the rows known to hold one
ReconcileRows(maps, tols, default, key, sample) ==
    ReconcileSample(maps, tols, default, key, sample,
                    TextPositions(maps, key, sample.Section, sample.MeasurementType),
                    NumericPositions(maps, key))

\* one turn of the loop over the keys, for a key that has an available row
ReconcileKey(maps, tols, default, key) ==
    ReconcileRows(maps, tols, default, key, maps[Available(maps, key)[1]][key])

(***************************************************************************)
(* harmonize_locations.  A FinalRow map is a Python dict, which keeps      *)
(* insertion order: a sequence of [key, row] with distinct keys.           *)
(***************************************************************************)
\* a variant of GraphLocations: the rows grouped by (SourceFile, Page) only
GraphLocations_PageWide(rows, graph_key) ==
    LET pos == Positions(Len(rows), LAMBDA p :
                   /\ rows[p].row.SourceFile = graph_key[1]
                   /\ rows[p].row.Page = graph_key[2]
                   /\ normalize_location_string(rows[p].row.Location) # <<>>)
    IN [q \in 1..Len(pos) |-> normalize_location_string(rows[pos[q]].row.Location)]

\* location_counts[graph_key]: the normalised non-empty Locations of the
\* rows of the graph, in the order of final_rows.values()
GraphLocations(rows, graph_key) ==
    LET pos == Positions(Len(rows), LAMBDA p :
                   /\ GraphKey(rows[p].row) = graph_key
                   /\ normalize_location_string(rows[p].row.Location) # <<>>)
    IN [q \in 1..Len(pos) |-> normalize_location_string(rows[pos[q]].row.Location)]

\* a variant of harmonize_locations: a row whose graph has no Location is
\* left out
harmonize_locations_Dropping(rows) ==
    LET kept == SelectSeq(rows, LAMBDA r : GraphLocations(rows, GraphKey(r.row)) # <<>>)
    IN [p \in 1..Len(kept) |->
           [kept[p] EXCEPT !.row.Location =
               MostCommon(GraphLocations(rows, GraphKey(kept[p].row)))]]

harmonize_locations(rows) ==
    [p \in 1..Len(rows) |->
        LET counter == GraphLocations(rows, GraphKey(rows[p].row))
        IN [rows[p] EXCEPT !.row.Location =
                IF counter # <<>> THEN MostCommon(counter) ELSE <<>>]]

(***************************************************************************)
(* aggregate_runs                                                          *)
(***************************************************************************)
\* a variant of ReconciledKeys: the keys in descending order
ReconciledKeys_Descending(maps) ==
    LET keys == SelectSeq(SortedKeys(CombinedKeys(maps)),
                          LAMBDA k : \E i \in DOMAIN maps : HasRow(maps, i, k))
    IN [p \in 1..Len(keys) |-> keys[Len(keys) + 1 - p]]

\* for key in sorted(combined_keys): ... if not available_rows: continue
ReconciledKeys(maps) ==
    SelectSeq(SortedKeys(CombinedKeys(maps)),
              LAMBDA k : \E i \in DOMAIN maps : HasRow(maps, i, k))

\* what the loop yields for each key it reconciles, in its order
Reconciled(maps, tols, default) ==
    LET keys == ReconciledKeys(maps)
    IN [p \in 1..Len(keys) |-> ReconcileKey(maps, tols, default, keys[p])]

\* final_rows as it stands when the loop over the keys ends (line 213)
RowsOf(recs) == [p \in 1..Len(recs) |-> [key |-> recs[p].key, row |-> recs[p].row]]

\* a variant of EntriesOf: an entry for every key reconciled
EntriesOf_EveryKey(recs) == [p \in 1..Len(recs) |-> recs[p].entry]

\* disagreements: one entry for each key with issues, in the order of the loop
EntriesOf(recs) ==
    LET flagged == SelectSeq(recs, LAMBDA r : r.issues # <<>>)
    IN [p \in 1..Len(flagged) |-> flagged[p].entry]

\* lines 213-215, the loop over the keys done
Harmonized(recs) ==
    [final_rows |-> harmonize_locations(RowsOf(recs)),
     disagreements |-> EntriesOf(recs),
     \* not returned: final_rows before line 214
     reconciled |-> RowsOf(recs)]

aggregate_runs(maps, tols, default) ==
    IF maps = <<>>
    THEN [final_rows |-> <<>>, disagreements |-> <<>>, reconciled |-> <<>>]
    ELSE Harmonized(Reconciled(maps, tols, default))

(***************************************************************************)
(* State                                                                   *)
(***************************************************************************)
VARIABLES
    pc,                         \* where the caller stands
    run_maps,                   \* the list of RunMaps
    tolerances,                 \* the tolerance table
    default_numeric_tolerance,  \* the caller's default tolerance
    final_rows,                 \* the FinalRow map
    disagreements,              \* the disagreement list
    rows_before,                \* final_rows as harmonize_locations last found it
    calls,                      \* calls of harmonize_locations made so far
    detection_map,              \* run_pipeline: the detected pages
    rerun_on_disagreement,      \* run_pipeline: the parameter
    flagged_graphs,             \* run_pipeline: the flagged charts
    batches,                    \* run_pipeline: the extraction batches submitted
    aggregated_rows,            \* run_pipeline: final_rows as aggregate_runs returned it
    answers,                    \* run_pipeline: the results file of each batch
    invalid_summaries,          \* run_pipeline: the list of that name
    report,                     \* run_pipeline: the report as written, <<>> before
    call_args,                  \* a function called on its own: its arguments
    call_result,                \* a function called on its own: what it returned
    batch,                      \* submit_and_wait: the batch as the service holds it
    retrieved,                  \* submit_and_wait: b, the batch as last retrieved
    files                       \* submit_and_wait: the files written

pipe_vars == << detection_map, rerun_on_disagreement, flagged_graphs, batches,
                aggregated_rows, answers, invalid_summaries, report >>

wait_vars == << batch, retrieved, files >>

call_vars == << call_args, call_result, wait_vars >>

vars == << pc, run_maps, tolerances, default_numeric_tolerance, final_rows,
           disagreements, rows_before, calls, pipe_vars, call_vars >>

\* no function is called on its own
\* submit_and_wait is not running
NoWait == batch = <<>> /\ retrieved = <<>> /\ files = {}

NoCall == call_args = <<>> /\ call_result = <<>> /\ NoWait

\* run_pipeline is not running
NoPipeline ==
    /\ detection_map = <<>>
    /\ rerun_on_disagreement = FALSE
    /\ flagged_graphs = {}
    /\ batches = <<>>
    /\ aggregated_rows = <<>>
    /\ answers = <<>>
    /\ invalid_summaries = <<>>
    /\ report = <<>>

(***************************************************************************)
(* Bounds and input domains                                                *)
(***************************************************************************)
\* the most RunMaps handed to aggregate_runs
MaxRuns == 3
\* the most Records in the RunMaps of a many-key input, and the most rows of
\* a FinalRow map handed to harmonize_locations
MaxRecords == 3

BenNevis == <<"Ben", " ", "Nevis">>
CairnGorm == <<"Cairn", " ", "Gorm">>
WindPrefix == LOCATION_PREFIXES[1]

KWindSpeed == <<"a.pdf", 2, "Wind", "Wind", "Speed", 0, "18:00">>
KWindSpeed1 == <<"a.pdf", 2, "Wind", "Wind", "Speed", 1, "19:00">>
KWindGust == <<"a.pdf", 2, "Wind", "Wind", "Gust", 0, "18:00">>
KPrecipRain == <<"a.pdf", 2, "Precip", "Precipitation", "Rain", 0, "18:00">>
KPrecipType == <<"a.pdf", 2, "Precip", "Precipitation", "Type", 0, "18:00">>
KAirTemp == <<"a.pdf", 2, "Temperature", "Temperature", "AirTemp_C", 0, "18:00">>
KFreezing == <<"a.pdf", 2, "Temperature", "FreezingLevel", "FreezingLevel_m", 0, "18:00">>
KCloud == <<"a.pdf", 2, "Cloud", "CloudBase", "Base_m", 0, "18:00">>

\* n * 0.5
Half(n) == n * (One \div 2)

\* DEFAULT_NUMERIC_TOLERANCES
DEFAULT_NUMERIC_TOLERANCES ==
    ( <<"Wind", "Speed">> :> 3 * One ) @@
    ( <<"Wind", "Gust">> :> 5 * One ) @@
    ( <<"Precip", "Rain">> :> One ) @@
    ( <<"Precip", "Snow">> :> (6 * One) \div 10 ) @@
    ( <<"Temperature", "AirTemp_C">> :> (7 * One) \div 10 ) @@
    ( <<"Temperature", "FreezingLevel_m">> :> 80 * One ) @@
    ( <<"Temperature", "WBFL_m">> :> 80 * One )

\* the empty table
NoTolerances == [e \in {} |-> 0]

\* the <<table, default>> pairs tried for key k: the defaults, no table (with
\* two defaults), an entry for the Measurement only, a zero entry for the
\* MeasurementType over one for the Measurement, and an entry half an
\* epsilon under 3.0
ToleranceChoices(k) ==
    IF k = KWindSpeed
    THEN { <<DEFAULT_NUMERIC_TOLERANCES, One>>,
           <<NoTolerances, One>>,
           <<NoTolerances, 30 * One>>,
           << ( <<k[3], k[4]>> :> 5 * One ), One >>,
           << ( <<k[3], k[5]>> :> 0 ) @@ ( <<k[3], k[4]>> :> 5 * One ), One >>,
           << ( <<k[3], k[5]>> :> (3 * One) - (EPSILON \div 2) ), One >> }
    ELSE { <<DEFAULT_NUMERIC_TOLERANCES, One>> }

\* Notes marks the run a Record comes from
RunNote(i) == <<"run", i>>

\* the <<ValueNumeric, ValueText>> pairs a run may hold for the one key of a
\* one-key input
ValueChoices(k) ==
    IF k = KWindSpeed
    THEN { <<NumVal(Half(n)), <<>> >> : n \in {24, 26, 30, 80} } \cup { <<BlankNum, <<>> >> }
    ELSE IF k = KPrecipType
    THEN { <<BlankNum, txt>> : txt \in { <<>>, <<"Snow">>, <<"Rain">>, <<"rain">>,
                                         <<"None">>, <<" ", "no", " ", "precip">> } }
         \cup { <<NumVal(0), <<>> >>, <<NumVal(Half(4)), <<"Snow">> >> }
    ELSE IF k = KPrecipRain
    THEN { <<NumVal(Half(n)), <<>> >> : n \in {0, 1, 4} }
         \cup { <<BlankNum, <<>> >>, <<BlankNum, <<" ">> >> }
    ELSE IF k = KAirTemp
    THEN { <<NumVal(Half(n)), <<>> >> : n \in {-3, -2, 0, 1} } \cup { <<BlankNum, <<>> >> }
    ELSE IF k = KFreezing
    THEN { <<NumVal(Half(n)), <<>> >> : n \in {160, 170, 180} } \cup { <<BlankNum, <<>> >> }
    ELSE { <<NumVal(Half(n)), <<>> >> : n \in {1, 2} }
         \cup { <<NoneNum, <<>> >>, <<BadNum, <<>> >> }
         \cup { <<BlankNum, txt>> : txt \in { <<"low">>, <<"Low">>, <<"low", " ">>,
                                              <<"None">> } }

OneKeyKeys == { KWindSpeed, KPrecipType, KPrecipRain, KAirTemp, KFreezing, KCloud }

\* the Locations tried on the records of KWindGust
LocationChoices ==
    { <<>>, <<"unknown">>, BenNevis, WindPrefix \o BenNevis,
      WindPrefix \o <<"Unknown">> }

\* one-key inputs: for each run, no Record (<<>>) or one of the choices
OneKeyCells(k, n) ==
    [1..n -> (IF k = KWindGust
              THEN { <<loc, NumVal(Half(24)), <<>> >> : loc \in LocationChoices }
              ELSE { <<BenNevis, c[1], c[2]>> : c \in ValueChoices(k) }) \cup {<<>>}]

OneKeyInputs(k, f) ==
    [i \in DOMAIN f |->
        IF f[i] = <<>> THEN [e \in {} |-> 0]
        ELSE (k :> MkRow(k, f[i][1], f[i][2], f[i][3], "", RunNote(i)))]

\* many-key inputs: at most MaxRecords Records over three keys, two of them
\* of one chart
ManyKeys == { KWindSpeed, KWindSpeed1, KPrecipRain }

ManyKeyLocations == { BenNevis, WindPrefix \o CairnGorm }

\* the sets of <<run, key>> cells that hold a Record
ManyKeyCells(n) ==
    { s \in SUBSET ((1..n) \X ManyKeys) : Cardinality(s) <= MaxRecords }

\* the RunMaps that hold, in the cells of f, a Record with the cell's Location
ManyKeyInputs(n, f) ==
    [i \in 1..n |->
        [k \in { kk \in ManyKeys : <<i, kk>> \in DOMAIN f } |->
            MkRow(k, f[<<i, k>>], NumVal(Half(24)), <<>>, "", RunNote(i))]]

(***************************************************************************)
(* Spec: one call of aggregate_runs                                        *)
(***************************************************************************)
Init ==
    /\ pc = "aggregate_runs"
    /\ \E n \in 0..MaxRuns :
          \/ /\ \E s \in ManyKeyCells(n) : \E f \in [s -> ManyKeyLocations] :
                   run_maps = ManyKeyInputs(n, f)
             /\ tolerances = DEFAULT_NUMERIC_TOLERANCES
             /\ default_numeric_tolerance = One
          \/ /\ n >= 1
             /\ \E k \in OneKeyKeys \cup {KWindGust} :
                   /\ \E f \in OneKeyCells(k, n) : run_maps = OneKeyInputs(k, f)
                   /\ \E c \in ToleranceChoices(k) :
                         /\ tolerances = c[1]
                         /\ default_numeric_tolerance = c[2]
    /\ final_rows = <<>>
    /\ disagreements = <<>>
    /\ rows_before = <<>>
    /\ calls = 0
    /\ NoPipeline
    /\ NoCall

\* the caller holds what aggregate_runs returns
\* a variant of InputsAfter: sample is available_rows[0] itself, so the
\* writes to merged_row and harmonize_locations' write reach that row
InputsAfter_Aliased(maps, out) ==
    [i \in DOMAIN maps |->
        [k \in DOMAIN maps[i] |->
            IF i = Available(maps, k)[1]
            THEN out.final_rows[CHOOSE p \in DOMAIN out.final_rows :
                                   out.final_rows[p].key = k].row
            ELSE maps[i][k]]]

\* run_maps when aggregate_runs returns: sample = dict(available_rows[0])
\* (line 114) and merged_row = dict(sample) (line 187) are copies, so the
\* writes of lines 188-190 and of harmonize_locations reach no row of a
\* RunMap; nothing else writes
InputsAfter(maps, out) == maps

Return(out) ==
    /\ run_maps' = InputsAfter(run_maps, out)
    /\ final_rows' = out.final_rows
    /\ disagreements' = out.disagreements
    /\ rows_before' = IF run_maps = <<>> THEN rows_before ELSE out.reconciled

AggregateRuns ==
    /\ pc = "aggregate_runs"
    /\ Return(aggregate_runs(run_maps, tolerances, default_numeric_tolerance))
    /\ calls' = IF run_maps = <<>> THEN calls ELSE calls + 1
    /\ pc' = "returned"
    /\ UNCHANGED << tolerances, default_numeric_tolerance, pipe_vars, call_vars >>

Next == AggregateRuns

Spec == Init /\ [][Next]_vars

(***************************************************************************)
(* HarmSpec: harmonize_locations called, and called again, on a FinalRow   *)
(* map of at most MaxRecords rows over two charts                          *)
(***************************************************************************)
\* the most calls of harmonize_locations in a row
MaxCalls == 2

HarmKeys == { KWindSpeed, KWindGust, KWindSpeed1, KPrecipRain }

HarmLocations ==
    { <<>>, <<"unknown">>, BenNevis, CairnGorm, WindPrefix \o BenNevis,
      WindPrefix \o <<"unknown">>, BenNevis \o <<" ", "(", "1345", "m", ")">> }

\* the sets of at most MaxRecords keys
HarmKeySets == { s \in SUBSET HarmKeys : Cardinality(s) <= MaxRecords }

\* the map of the rows of the keys, in key order, with the Locations of f
HarmRows(keys, f) ==
    [p \in 1..Len(keys) |->
        [key |-> keys[p],
         row |-> MkRow(keys[p], f[keys[p]], NumVal(Half(24)), <<>>, "", <<>>)]]

HarmInputs(f) == HarmRows(SortedKeys(DOMAIN f), f)

HarmInit ==
    /\ pc = "harmonize_locations"
    /\ \E ks \in HarmKeySets : \E f \in [ks -> HarmLocations] :
          final_rows = HarmInputs(f)
    /\ run_maps = <<>>
    /\ tolerances = NoTolerances
    /\ default_numeric_tolerance = One
    /\ disagreements = <<>>
    /\ rows_before = <<>>
    /\ calls = 0
    /\ NoPipeline
    /\ NoCall

HarmonizeLocations ==
    /\ pc = "harmonize_locations"
    /\ calls < MaxCalls
    /\ rows_before' = final_rows
    /\ final_rows' = harmonize_locations(final_rows)
    /\ calls' = calls + 1
    /\ UNCHANGED << pc, run_maps, tolerances, default_numeric_tolerance,
                    disagreements, pipe_vars, call_vars >>

HarmNext == HarmonizeLocations

HarmSpec == HarmInit /\ [][HarmNext]_vars

(***************************************************************************)
(* extractors.py, parse_batch_results.py, run_batch_pipeline.py: from the  *)
(* service's answers to RunMaps.  A custom_id "extract::<file>::p<page>::  *)
(* <kind>" is the record [file, page, kind]; a line of a results file is   *)
(* [custom_id, error, parsed], error standing for a line that carries an   *)
(* error or no structured output.                                          *)
(***************************************************************************)
DEFAULT_KINDS == {"wind", "precipitation", "temperature"}

\* SECTION_KIND_MAP.get(section), "" for None
SECTION_KIND_MAP(section) ==
    CASE section = "Wind" -> "wind"
      [] section = "Precip" -> "precipitation"
      [] section = "Temperature" -> "temperature"
      [] OTHER -> ""

\* a or b, for strs
Or(a, b) == IF a # <<>> THEN a ELSE b

RECURSIVE ConcatAll(_)
ConcatAll(seqs) == IF seqs = <<>> THEN <<>> ELSE Head(seqs) \o ConcatAll(Tail(seqs))

\* the three rows series_to_rows appends for the hour h of a series
HourRows(source_file, page_index, location, kind, h) ==
    LET Row(section, measurement, measurement_type, units, value_numeric, value_text) ==
            MkRow(<< source_file, page_index + 1, section, measurement,
                     measurement_type, h.hour_index, h.hour_label >>,
                  location, value_numeric, value_text, units, <<>>)
    IN IF kind = "wind"
       THEN << Row("Wind", "Wind", "Speed", "mph", h.wind_speed_mph, <<>>),
               Row("Wind", "Wind", "Gust", "mph", h.wind_gust_mph, <<>>),
               Row("Wind", "Wind", "Direction", "", BlankNum, h.wind_direction) >>
       ELSE IF kind = "precipitation"
       THEN << Row("Precip", "Precipitation", "Rain", "mm", h.rain_mm, <<>>),
               Row("Precip", "Precipitation", "Snow", "cm", h.snow_cm, <<>>),
               Row("Precip", "Precipitation", "Type", "", BlankNum, h.precip_type) >>
       ELSE << Row("Temperature", "Temperature", "AirTemp_C", "degC", h.air_temp_c, <<>>),
               Row("Temperature", "FreezingLevel", "FreezingLevel_m", "m",
                   h.freezing_level_m, <<>>),
               Row("Temperature", "WetBulbFreezingLevel", "WBFL_m", "m",
                   h.wet_bulb_freezing_level_m, <<>>) >>

\* file names are bare here, so os.path.basename leaves them as they are
series_to_rows(source_file, page_index, location, kind, payload) ==
    ConcatAll([i \in 1..Len(payload.hours) |->
                  HourRows(source_file, page_index, location, kind, payload.hours[i])])

\* detection_locations.get((file_name, page), "") or ""
DetectionLocation(detection_locations, file_name, page) ==
    IF <<file_name, page>> \in DOMAIN detection_locations
    THEN detection_locations[<<file_name, page>>]
    ELSE <<>>

\* the rows parse_jsonl_file makes of one line of the results file
LineRows(obj, detection_locations) ==
    IF obj.error THEN <<>>
    ELSE LET parsed == obj.parsed
             file_name == obj.custom_id.file
             page_index == IF obj.custom_id.page - 1 > 0 THEN obj.custom_id.page - 1 ELSE 0
             detection_location ==
                 DetectionLocation(detection_locations, file_name, page_index + 1)
             location == Or(parsed.location, detection_location)
             kind == obj.custom_id.kind
             SubRows(sub_kind) ==
                 series_to_rows(file_name, page_index,
                                Or(location, Or(parsed[sub_kind].location,
                                                detection_location)),
                                sub_kind, parsed[sub_kind])
         IN IF /\ kind = "combined"
               /\ {"wind", "precipitation", "temperature"} \subseteq DOMAIN parsed
            THEN SubRows("wind") \o SubRows("precipitation") \o SubRows("temperature")
            ELSE IF kind \notin {"wind", "precipitation", "temperature"}
            THEN <<>>
            ELSE series_to_rows(file_name, page_index, location, kind, parsed)

parse_jsonl_file(results, detection_locations) ==
    ConcatAll([i \in 1..Len(results) |-> LineRows(results[i], detection_locations)])

\* d[key] = row on a dict: in place if the key is there, at the end if not
DictSet(d, key, row) ==
    IF \E p \in DOMAIN d : d[p].key = key
    THEN [p \in DOMAIN d |-> IF d[p].key = key THEN [key |-> key, row |-> row] ELSE d[p]]
    ELSE Append(d, [key |-> key, row |-> row])

RECURSIVE RowMapFrom(_, _)
RowMapFrom(rows, row_map) ==
    IF rows = <<>> THEN row_map
    ELSE LET r == Head(rows)
             row == [r EXCEPT !.Location = normalize_location_string(r.Location),
                              !.ValueText = normalize_text_value(r.Section,
                                                r.MeasurementType, r.ValueText)]
             key == << row.SourceFile, row.Page, row.Section, row.Measurement,
                       row.MeasurementType, row.HourIndex, row.HourLabel >>
         IN RowMapFrom(Tail(rows), DictSet(row_map, key, row))

\* the row_map, in the order of its keys' first insertion
dataframe_to_row_map(rows) == RowMapFrom(rows, <<>>)

\* a row_map as a RunMap
RunMapOf(row_map) ==
    [k \in {row_map[p].key : p \in DOMAIN row_map} |->
        row_map[CHOOSE p \in DOMAIN row_map : row_map[p].key = k].row]

\* a variant of PageItems: allowed_graphs is not looked at
PageItems_AnyGraph(entry, kind_set, restrict, allowed_graphs, override_map, prefer_combined) ==
    LET selected_crops ==
            { entry.graphs[i].kind : i \in
                { j \in DOMAIN entry.graphs :
                    entry.graphs[j].kind \in kind_set /\ entry.graphs[j].bbox } }
        Request(kind) ==
            IF kind \in selected_crops
            THEN << [file |-> entry.file, page |-> entry.page, kind |-> kind] >>
            ELSE <<>>
    IN Request("wind") \o Request("precipitation") \o Request("temperature")

\* the custom_ids of the requests made for one detected page
PageItems(entry, kind_set, restrict, allowed_graphs, override_map, prefer_combined) ==
    LET crops_by_kind ==
            { entry.graphs[i].kind : i \in
                { j \in DOMAIN entry.graphs :
                    entry.graphs[j].kind \in kind_set /\ entry.graphs[j].bbox } }
        selected_crops ==
            { k \in crops_by_kind :
                ~restrict \/ <<entry.file, entry.page, k>> \in allowed_graphs }
        three == {"wind", "precipitation", "temperature"}
        have_all_requested ==
            prefer_combined /\ three \subseteq kind_set /\ three \subseteq selected_crops
        has_override ==
            \E ck \in three : <<entry.file, entry.page, ck>> \in override_map
        Request(kind) ==
            IF kind \in selected_crops /\ kind \in kind_set
            THEN << [file |-> entry.file, page |-> entry.page, kind |-> kind] >>
            ELSE <<>>
    IN IF selected_crops = {} THEN <<>>
       ELSE IF have_all_requested /\ ~has_override
       THEN << [file |-> entry.file, page |-> entry.page, kind |-> "combined"] >>
       ELSE Request("wind") \o Request("precipitation") \o Request("temperature")

\* the items of the batch file; restrict says that only_graphs is given and
\* not empty, override_map holds the graphs that have a prompt override
build_extraction_jsonl_from_detect(detection, kinds, restrict, only_graphs, prompt_overrides, prefer_combined) ==
    ConcatAll([i \in 1..Len(detection) |->
                  PageItems(detection[i], kinds, restrict, only_graphs,
                            prompt_overrides, prefer_combined)])

\* detection_locations: the pages that have a location
DetectionLocations(detection) ==
    LET located == { i \in DOMAIN detection : detection[i].location # <<>> }
    IN [fp \in { <<detection[i].file, detection[i].page>> : i \in located } |->
           detection[CHOOSE i \in located :
                        <<detection[i].file, detection[i].page>> = fp].location]

\* flagged_graphs of run_pipeline
FlaggedGraphs(entries) ==
    { g \in { entries[i].graph : i \in DOMAIN entries } : SECTION_KIND_MAP(g[3]) # "" }

\* only_graphs of run_pipeline
OnlyGraphs(flagged) == { <<g[1], g[2], SECTION_KIND_MAP(g[3])>> : g \in flagged }

\* for key, row in rerun_map.items(): final_rows_map[key] = row
RECURSIVE Patch(_, _)
Patch(rows, rerun_map) ==
    IF rerun_map = <<>> THEN rows
    ELSE Patch(DictSet(rows, Head(rerun_map).key, Head(rerun_map).row), Tail(rerun_map))

(***************************************************************************)
(* run_batch_pipeline.py: the validity filter                              *)
(***************************************************************************)
\* payload.get("hours") or []
Hours(payload) == IF "hours" \in DOMAIN payload THEN payload.hours ELSE <<>>

\* (h.get(field) or 0) == 0, on a tagged value
IsZero(v) == v.kind \in {"none", "blank"} \/ (v.kind = "num" /\ v.val = 0)

\* the test _series_all_zero makes of one hour
HourAllZero(kind, h) ==
    IF kind = "wind"
    THEN IsZero(h.wind_speed_mph) /\ IsZero(h.wind_gust_mph)
    ELSE IF kind = "precipitation"
    THEN IsZero(h.rain_mm) /\ IsZero(h.snow_cm)
    ELSE /\ IsZero(h.air_temp_c)
         /\ IsZero(h.freezing_level_m)
         /\ IsZero(h.wet_bulb_freezing_level_m)

\* a variant of _series_all_zero: one all-zero hour is enough
SomeHourZero(kind, payload) ==
    \/ Hours(payload) = <<>>
    \/ /\ kind \in {"wind", "precipitation", "temperature"}
       /\ \E i \in DOMAIN Hours(payload) : HourAllZero(kind, Hours(payload)[i])

_series_all_zero(kind, payload) ==
    \/ Hours(payload) = <<>>
    \/ /\ kind \in {"wind", "precipitation", "temperature"}
       /\ \A i \in DOMAIN Hours(payload) : HourAllZero(kind, Hours(payload)[i])

\* the hours as _normalize_series leaves them
NormalizedHours(kind, hours) ==
    IF kind = "precipitation"
    THEN [i \in DOMAIN hours |->
             [hours[i] EXCEPT !.precip_type = normalize_precip_type(hours[i].precip_type)]]
    ELSE hours

_normalize_series(kind, payload) ==
    IF "hours" \in DOMAIN payload
    THEN [payload EXCEPT !.location = normalize_location_string(payload.location),
                         !.hours = NormalizedHours(kind, payload.hours)]
    ELSE [payload EXCEPT !.location = normalize_location_string(payload.location)]

\* the verdict on the normalized series
Verdict(kind, normalized) ==
    IF Hours(normalized) = <<>>
    THEN [ok |-> FALSE, normalized |-> normalized, reason |-> "empty_hours"]
    ELSE IF _series_all_zero(kind, normalized)
    THEN [ok |-> FALSE, normalized |-> normalized, reason |-> "all_zero_series"]
    ELSE [ok |-> TRUE, normalized |-> normalized, reason |-> ""]

_validate_series(kind, payload) == Verdict(kind, _normalize_series(kind, payload))

\* the sub-payloads of a combined answer, in the order of their kinds
SubSeries(parsed, kinds) ==
    [j \in DOMAIN kinds |-> [kind |-> kinds[j], payload |-> parsed[kinds[j]]]]

\* the series load_structured_results finds on one line of the results file
LineSeries(obj) ==
    IF obj.error \/ obj.custom_id.page <= 0 THEN <<>>
    ELSE IF obj.custom_id.kind = "combined"
    THEN SubSeries(obj.parsed, SelectSeq(<< "wind", "precipitation", "temperature" >>,
                                         LAMBDA k : k \in DOMAIN obj.parsed))
    ELSE IF obj.custom_id.kind \in {"wind", "precipitation", "temperature"}
    THEN << [kind |-> obj.custom_id.kind, payload |-> obj.parsed] >>
    ELSE <<>>

\* the verdicts on the series of one line
LineChecks(obj, line_number) ==
    [j \in DOMAIN LineSeries(obj) |->
        [file |-> obj.custom_id.file, page |-> obj.custom_id.page,
         kind |-> LineSeries(obj)[j].kind, line |-> line_number,
         verdict |-> _validate_series(LineSeries(obj)[j].kind, LineSeries(obj)[j].payload)]]

\* the entries appended to invalid_entries, from the failed verdicts
InvalidEntries(failed) ==
    [i \in DOMAIN failed |->
        [file |-> failed[i].file, page |-> failed[i].page, kind |-> failed[i].kind,
         reason |-> failed[i].verdict.reason, line |-> failed[i].line]]

\* results and invalid_entries, from the verdicts in file order
Loaded(checks) ==
    [results |->
        [g \in { <<checks[i].file, checks[i].page, checks[i].kind>> :
                    i \in { j \in DOMAIN checks : checks[j].verdict.ok } } |->
            checks[CHOOSE i \in DOMAIN checks :
                      /\ checks[i].verdict.ok
                      /\ <<checks[i].file, checks[i].page, checks[i].kind>> = g
                      /\ \A j \in DOMAIN checks :
                            (checks[j].verdict.ok /\ j > i) =>
                                <<checks[j].file, checks[j].page, checks[j].kind>> # g
                  ].verdict.normalized],
     invalid_entries |-> InvalidEntries(SelectSeq(checks, LAMBDA c : ~c.verdict.ok))]

load_structured_results(results) ==
    Loaded(ConcatAll([i \in 1..Len(results) |-> LineChecks(results[i], i)]))

\* lines 634-645, 720-728: the summary of a results file's invalid entries
InvalidSummary(run, invalid_entries) ==
    [run |-> run, total_invalid |-> Len(invalid_entries),
     reasons |-> [r \in { invalid_entries[i].reason : i \in DOMAIN invalid_entries } |->
                     Cardinality({ i \in DOMAIN invalid_entries :
                                      invalid_entries[i].reason = r })]]

(***************************************************************************)
(* PipeSpec: run_pipeline from the detection results on.  The service's    *)
(* answer to a batch is any choice of one line for each request.           *)
(***************************************************************************)
\* extraction_repeats, the parameter's default
extraction_repeats == 2

\* the hours of a series
HoursPerSeries == 1

\* the most descriptor prefixes in front of a location the service reports
MaxPrefixes == 3

HourLabels == << "18:00", "19:00", "20:00" >>

RECURSIVE NestedPrefix(_, _)
NestedPrefix(n, s) == IF n = 0 THEN s ELSE WindPrefix \o NestedPrefix(n - 1, s)

\* the locations a payload reports: none, or a placeholder behind prefixes
PipeLocations == { <<>>, NestedPrefix(MaxPrefixes, <<"unknown">>) }

WindHours(speed) ==
    [h \in 1..HoursPerSeries |->
        [ hour_index |-> h - 1, hour_label |-> HourLabels[h],
          wind_speed_mph |-> NumVal(speed),
          wind_gust_mph |-> NumVal(20 * One),
          wind_direction |-> <<"N">> ]]

PrecipHours(rain) ==
    [h \in 1..HoursPerSeries |->
        [ hour_index |-> h - 1, hour_label |-> HourLabels[h],
          rain_mm |-> NumVal(rain), snow_cm |-> NumVal(0),
          precip_type |-> IF rain = 0 THEN <<"None">> ELSE <<"Rain">> ]]

TemperatureHours ==
    [h \in 1..HoursPerSeries |->
        [ hour_index |-> h - 1, hour_label |-> HourLabels[h],
          air_temp_c |-> NumVal(Half(1)), freezing_level_m |-> NumVal(800 * One),
          wet_bulb_freezing_level_m |-> NumVal(600 * One) ]]

\* the series the service reads off a chart: two wind series that differ by
\* more than the tolerance, a precipitation series that is all zero and one
\* that is not
SeriesChoices(kind) ==
    IF kind = "wind" THEN { WindHours(12 * One), WindHours(40 * One) }
    ELSE IF kind = "precipitation" THEN { <<>>, PrecipHours(0), PrecipHours(One) }
    ELSE { TemperatureHours }

PayloadChoices(kind) ==
    IF kind = "combined"
    THEN { [ location |-> l,
             wind |-> [location |-> <<>>, hours |-> w],
             precipitation |-> [location |-> <<>>, hours |-> p],
             temperature |-> [location |-> <<>>, hours |-> TemperatureHours] ] :
           l \in PipeLocations, w \in SeriesChoices("wind"),
           p \in SeriesChoices("precipitation") }
    ELSE { [location |-> l, hours |-> s] : l \in PipeLocations, s \in SeriesChoices(kind) }

\* the lines the service may answer a request with
LineChoices(custom_id) ==
    { [custom_id |-> custom_id, error |-> TRUE, parsed |-> <<>>] } \cup
    { [custom_id |-> custom_id, error |-> FALSE, parsed |-> p] :
        p \in PayloadChoices(custom_id.kind) }

\* the results files the service may answer a batch with
Responses(items) ==
    { r \in [1..Len(items) -> UNION { LineChoices(items[i]) : i \in DOMAIN items }] :
        \A i \in DOMAIN items : r[i].custom_id = items[i] }

\* a series with every hour's label read one tick further along the axis
Relabelled(hours) ==
    [h \in DOMAIN hours |-> [hours[h] EXCEPT !.hour_label = HourLabels[h + 1]]]

\* the lines the service may answer a request of the repair with: those of
\* a run and, for a wind chart, a series whose labels are read differently
RereadLineChoices(custom_id) ==
    LineChoices(custom_id) \cup
    (IF custom_id.kind = "wind"
     THEN { [custom_id |-> custom_id, error |-> FALSE,
             parsed |-> [location |-> <<>>, hours |-> Relabelled(WindHours(12 * One))]] }
     ELSE {})

\* the results files the service may answer the batch of the repair with
RereadResponses(items) ==
    { r \in [1..Len(items) -> UNION { RereadLineChoices(items[i]) : i \in DOMAIN items }] :
        \A i \in DOMAIN items : r[i].custom_id = items[i] }

\* the detection results: one page of a.pdf with a wind and a precipitation
\* graph
DetectionChoices ==
    { << [ file |-> "a.pdf", page |-> 2, location |-> BenNevis,
           graphs |-> << [kind |-> "wind", bbox |-> TRUE],
                         [kind |-> "precipitation", bbox |-> TRUE] >> ] >> }

PipeInit ==
    /\ pc = "extract"
    /\ run_maps = <<>>
    /\ tolerances = DEFAULT_NUMERIC_TOLERANCES
    /\ default_numeric_tolerance = One
    /\ final_rows = <<>>
    /\ disagreements = <<>>
    /\ rows_before = <<>>
    /\ calls = 0
    /\ detection_map \in DetectionChoices
    /\ rerun_on_disagreement \in BOOLEAN
    /\ flagged_graphs = {}
    /\ batches = <<>>
    /\ aggregated_rows = <<>>
    /\ answers = <<>>
    /\ invalid_summaries = <<>>
    /\ report = <<>>
    /\ NoCall

\* sorted(flagged_graphs), each with its kind (lines 671-675, 742-750)
RECURSIVE GraphList(_)
GraphList(graphs) ==
    IF graphs = {} THEN <<>>
    ELSE LET Before(a, b) ==
                 \/ StrRank(a[1]) < StrRank(b[1])
                 \/ a[1] = b[1] /\ a[2] < b[2]
                 \/ a[1] = b[1] /\ a[2] = b[2] /\ StrRank(a[3]) < StrRank(b[3])
             first == CHOOSE g \in graphs : \A h \in graphs \ {g} : Before(g, h)
         IN << [SourceFile |-> first[1], Page |-> first[2], Section |-> first[3],
                kind |-> SECTION_KIND_MAP(first[3])] >> \o GraphList(graphs \ {first})

\* rerun_info of a repair that ran (lines 741-757); the three file names of
\* the repair are left out
RerunInfo(flagged) == [graphs |-> GraphList(flagged)]

\* the report as json.dump writes it (lines 661-677, 759-760): a key is
\* there only if its value is not empty
Report(entries, flagged, summaries, rerun_info) ==
    [run_count |-> IF extraction_repeats > 1 THEN extraction_repeats ELSE 1,
     disagreements |-> entries]
    @@ (IF flagged # {} THEN [flagged_graphs |-> GraphList(flagged)] ELSE <<>>)
    @@ (IF summaries # <<>> THEN [invalid_runs |-> summaries] ELSE <<>>)
    @@ (IF rerun_info # <<>> THEN [rerun |-> rerun_info] ELSE <<>>)

\* lines 633-649: the results file loaded, summarised and made a RunMap
Receive(results) ==
    /\ answers' = Append(answers, results)
    /\ invalid_summaries' =
           Append(invalid_summaries,
                  InvalidSummary(Len(run_maps) + 1,
                                 load_structured_results(results).invalid_entries))
    /\ run_maps' = Append(run_maps,
           RunMapOf(dataframe_to_row_map(
               parse_jsonl_file(results, DetectionLocations(detection_map)))))

\* lines 631-649: the batch submitted, the answers made a RunMap
Submit(items) ==
    /\ batches' = Append(batches, [suffix |-> "", items |-> items])
    /\ \E results \in Responses(items) : Receive(results)

\* one turn of the loop over the runs (lines 609-653)
ExtractRun ==
    /\ pc = "extract"
    /\ Submit(build_extraction_jsonl_from_detect(detection_map, DEFAULT_KINDS,
                                                 FALSE, {}, {}, TRUE))
    /\ pc' = IF Len(run_maps) + 1 >= (IF extraction_repeats > 1 THEN extraction_repeats ELSE 1)
             THEN "aggregate" ELSE "extract"
    /\ UNCHANGED << tolerances, default_numeric_tolerance, final_rows, disagreements,
                    rows_before, calls, detection_map, rerun_on_disagreement,
                    flagged_graphs, aggregated_rows, report, call_vars >>

\* lines 681-715: the batch of the repair
RerunBatch(detection, only_graphs) ==
    build_extraction_jsonl_from_detect(detection, { g[3] : g \in only_graphs },
                                       TRUE, only_graphs, only_graphs, FALSE)

RerunItems(only_graphs) == RerunBatch(detection_map, only_graphs)

\* a variant of Rerun: the repair is submitted whatever rerun_on_disagreement
Rerun_IgnoreSwitch(flagged, entries) ==
    /\ flagged_graphs' = flagged
    /\ IF flagged # {}
       THEN /\ batches' = Append(batches, [suffix |-> "_rerun",
                                           items |-> RerunItems(OnlyGraphs(flagged))])
            /\ report' = report
            /\ pc' = "rerun"
       ELSE /\ batches' = batches
            /\ report' = Report(entries, flagged, invalid_summaries, <<>>)
            /\ pc' = "done"

\* lines 671-715: the repair is submitted if there are flagged charts; if
\* not, the report is written without a rerun entry
Rerun(flagged, entries) ==
    /\ flagged_graphs' = flagged
    /\ IF flagged # {} /\ rerun_on_disagreement
       THEN /\ batches' = Append(batches, [suffix |-> "_rerun",
                                           items |-> RerunItems(OnlyGraphs(flagged))])
            /\ report' = report
            /\ pc' = "rerun"
       ELSE /\ batches' = batches
            /\ report' = Report(entries, flagged, invalid_summaries, <<>>)
            /\ pc' = "done"

\* lines 659-670: what aggregate_runs returned, and the flagged charts
Flag(out) ==
    /\ final_rows' = out.final_rows
    /\ aggregated_rows' = out.final_rows
    /\ disagreements' = out.disagreements
    /\ rows_before' = out.reconciled
    /\ Rerun(FlaggedGraphs(out.disagreements), out.disagreements)

\* lines 655-715: aggregate_runs, the flagged charts and, if there are any,
\* the batch of the repair
Reconcile ==
    /\ pc = "aggregate"
    /\ Flag(aggregate_runs(run_maps, tolerances, default_numeric_tolerance))
    /\ calls' = calls + 1
    /\ UNCHANGED << run_maps, tolerances, default_numeric_tolerance, detection_map,
                    rerun_on_disagreement, answers, invalid_summaries, call_vars >>

\* a variant of Rewrite: the patched map is written as it is
Rewrite_Unharmonized(patched) ==
    /\ rows_before' = patched
    /\ final_rows' = patched

\* lines 733-735: final_rows_map patched, harmonize_locations called on it
Rewrite(patched) ==
    /\ rows_before' = patched
    /\ final_rows' = harmonize_locations(patched)

\* lines 720-728, 759-760: the repair's summary, if it has invalid entries,
\* joins invalid_summaries, which the report holds
Conclude(summaries) ==
    /\ invalid_summaries' = summaries
    /\ report' = Report(disagreements, flagged_graphs, summaries, RerunInfo(flagged_graphs))

Summarize(rerun_invalid) ==
    Conclude(IF rerun_invalid # <<>>
             THEN Append(invalid_summaries, InvalidSummary("rerun", rerun_invalid))
             ELSE invalid_summaries)

\* lines 716-735: the repair's results file loaded, its rows patched into
\* final_rows_map
Reread(results) ==
    /\ answers' = Append(answers, results)
    /\ Summarize(load_structured_results(results).invalid_entries)
    /\ Rewrite(Patch(final_rows,
                     dataframe_to_row_map(
                         parse_jsonl_file(results, DetectionLocations(detection_map)))))

\* lines 716-760: the repair
Repair ==
    /\ pc = "rerun"
    /\ \E results \in RereadResponses(batches[Len(batches)].items) : Reread(results)
    /\ calls' = calls + 1
    /\ pc' = "done"
    /\ UNCHANGED << run_maps, tolerances, default_numeric_tolerance, disagreements,
                    detection_map, rerun_on_disagreement, flagged_graphs, batches,
                    aggregated_rows, call_vars >>

PipeNext == ExtractRun \/ Reconcile \/ Repair

PipeSpec == PipeInit /\ [][PipeNext]_vars

(***************************************************************************)
(* Vocabulary of the properties: the inputs and the outputs of             *)
(* aggregate_runs, read off the state                                      *)
(***************************************************************************)
\* the key universe: the keys that occur in at least one RunMap
InputKeys == UNION { DOMAIN run_maps[i] : i \in DOMAIN run_maps }

\* the runs (positions from 1) that hold a Record for k
RunsWith(k) == { i \in DOMAIN run_maps : k \in DOMAIN run_maps[i] }

FinalKeys == { final_rows[p].key : p \in DOMAIN final_rows }

\* the FinalRow of k
FinalRow(k) == final_rows[CHOOSE p \in DOMAIN final_rows : final_rows[p].key = k].row

\* the issues with this reason in the DisagreementEntries of k
IssuesFor(k, reason) ==
    LET at == { pq \in (DOMAIN disagreements) \X (1..4) :
                  /\ disagreements[pq[1]].key = k
                  /\ pq[2] \in DOMAIN disagreements[pq[1]].issues
                  /\ disagreements[pq[1]].issues[pq[2]].reason = reason }
    IN { disagreements[pq[1]].issues[pq[2]] : pq \in at }

\* the normalised text that run i reports for k
TextAt(i, k) == normalize_text_value(k[3], k[5], run_maps[i][k].ValueText)

\* the runs that supply a non-empty text for k, and those that supply a number
TextRuns(k) == { i \in RunsWith(k) : TextAt(i, k) # <<>> }
NumRuns(k) == { i \in RunsWith(k) : run_maps[i][k].ValueNumeric.kind = "num" }
NumAt(i, k) == run_maps[i][k].ValueNumeric.val

\* a set of positions as an ascending sequence
RECURSIVE Ascending(_)
Ascending(S) ==
    IF S = {} THEN <<>>
    ELSE LET least == CHOOSE i \in S : \A j \in S : i <= j
         IN <<least>> \o Ascending(S \ {least})

\* run indices as the code reports them, from 0
RunIndices(S) == [p \in 1..Cardinality(S) |-> Ascending(S)[p] - 1]

\* the r-th smallest numeric value of k, r in 1..Cardinality(NumRuns(k))
RankedValue(k, r) ==
    CHOOSE v \in { NumAt(i, k) : i \in NumRuns(k) } :
        /\ Cardinality({ i \in NumRuns(k) : NumAt(i, k) < v }) < r
        /\ r <= Cardinality({ i \in NumRuns(k) : NumAt(i, k) <= v })

\* twice the median: the middle value counted twice, or the sum of the two
\* middle values
TwiceMedian(k) ==
    LET n == Cardinality(NumRuns(k))
    IN RankedValue(k, (n + 1) \div 2) + RankedValue(k, (n \div 2) + 1)

\* the display step of the field of k: whole units for wind, 0.1 for
\* precipitation and air temperature, 10 for the altitudes, 0.01 otherwise
Quantum(k) ==
    IF k[3] = "Wind" THEN One
    ELSE IF k[3] = "Precip" THEN One \div 10
    ELSE IF k[3] = "Temperature" /\ k[5] = "AirTemp_C" THEN One \div 10
    ELSE IF k[3] = "Temperature" THEN 10 * One
    ELSE One \div 100

\* q is twice/2 rounded to the nearest multiple of step, a tie going to the
\* even multiple
IsQuantized(q, twice, step) ==
    /\ q % step = 0
    /\ (2 * q) - twice <= step
    /\ twice - (2 * q) <= step
    /\ ((2 * q) - twice = step \/ twice - (2 * q) = step) => (q \div step) % 2 = 0

\* max - min of the numeric values of k
Spread(k) ==
    LET vals == { NumAt(i, k) : i \in NumRuns(k) }
    IN (CHOOSE v \in vals : \A w \in vals : w <= v)
       - (CHOOSE v \in vals : \A w \in vals : v <= w)

\* the tolerance of the field of k by the lookup order of the table
ExpectedTolerance(k) ==
    IF <<k[3], k[5]>> \in DOMAIN tolerances THEN tolerances[<<k[3], k[5]>>]
    ELSE IF <<k[3], k[4]>> \in DOMAIN tolerances THEN tolerances[<<k[3], k[4]>>]
    ELSE default_numeric_tolerance

\* k is settled by the numeric branch
NumericBranch(k) == TextRuns(k) = {} /\ NumRuns(k) # {}

(***************************************************************************)
(* C1: when aggregate_runs has returned, the keys of the FinalRow map are  *)
(* exactly the keys that occur in at least one RunMap, each once.          *)
(***************************************************************************)
C1_KeyCompleteness ==
    pc = "returned" =>
        /\ FinalKeys = InputKeys
        /\ Len(final_rows) = Cardinality(InputKeys)

\* three keys, none of them held by every run, have been reconciled
C1_Witness ==
    /\ pc = "returned"
    /\ Len(run_maps) >= 2
    /\ Cardinality(FinalKeys) = 3
    /\ \A i \in DOMAIN run_maps : DOMAIN run_maps[i] # InputKeys

(***************************************************************************)
(* C2: for a key with no text in any run and a number in at least one,     *)
(* ValueNumeric is the median of the runs' numbers (the mean of the two    *)
(* middle ones for an even count) rounded to the field's display step,     *)
(* under every tolerance table.                                            *)
(***************************************************************************)
C2_MedianConsensus ==
    pc = "returned" =>
        \A k \in InputKeys :
            NumericBranch(k) =>
                /\ FinalRow(k).ValueNumeric.kind = "num"
                /\ IsQuantized(FinalRow(k).ValueNumeric.val, TwiceMedian(k), Quantum(k))
                /\ FinalRow(k).ValueText = <<>>

\* three runs report wind speed 12, 13 and 40: the consensus is 13
C2_Witness ==
    /\ pc = "returned"
    /\ Len(run_maps) = 3
    /\ NumRuns(KWindSpeed) = {1, 2, 3}
    /\ NumAt(1, KWindSpeed) = 12 * One
    /\ NumAt(2, KWindSpeed) = 13 * One
    /\ NumAt(3, KWindSpeed) = 40 * One
    /\ FinalRow(KWindSpeed).ValueNumeric = NumVal(13 * One)

(***************************************************************************)
(* C3 as claimed: in the numeric branch a numeric_variation issue is       *)
(* emitted exactly when two or more runs supplied a number and max - min   *)
(* exceeds the tolerance of the field.                                     *)
(***************************************************************************)
C3_Original ==
    pc = "returned" =>
        \A k \in InputKeys :
            NumericBranch(k) =>
                ( IssuesFor(k, "numeric_variation") # {}
                  <=> ( /\ Cardinality(NumRuns(k)) >= 2
                        /\ Spread(k) > ExpectedTolerance(k) ) )

(***************************************************************************)
(* C3 as amended: in the numeric branch a numeric_variation issue is       *)
(* emitted exactly when two or more runs supplied a number and max - min   *)
(* exceeds the tolerance of the field by more than 1e-6 (so a spread equal *)
(* to the tolerance emits none); there is at most one, and it carries the  *)
(* contributing values and their run indices in run order and the          *)
(* tolerance used.                                                         *)
(***************************************************************************)
C3_NumericVariation ==
    pc = "returned" =>
        \A k \in InputKeys :
            NumericBranch(k) =>
                /\ IssuesFor(k, "numeric_variation") # {}
                   <=> ( /\ Cardinality(NumRuns(k)) >= 2
                         /\ Spread(k) > ExpectedTolerance(k) + EPSILON )
                /\ \A issue \in IssuesFor(k, "numeric_variation") :
                      /\ issue.runs = RunIndices(NumRuns(k))
                      /\ issue.values =
                            [p \in 1..Cardinality(NumRuns(k)) |->
                                NumAt(Ascending(NumRuns(k))[p], k)]
                      /\ issue.tolerance = ExpectedTolerance(k)

\* wind speed 12, 13, 40 under tolerance 3: the issue lists the three values
\* and the runs 0, 1, 2
C3_Witness ==
    /\ pc = "returned"
    /\ NumericBranch(KWindSpeed)
    /\ [reason |-> "numeric_variation",
        values |-> <<12 * One, 13 * One, 40 * One>>,
        runs |-> <<0, 1, 2>>,
        tolerance |-> 3 * One] \in IssuesFor(KWindSpeed, "numeric_variation")

(***************************************************************************)
(* C4: for a key where some run supplies a non-empty normalised text, the  *)
(* FinalRow's ValueText is a text the runs reported, its ValueNumeric is   *)
(* blank and no numeric_variation issue is emitted, whatever numbers the   *)
(* runs carry for the key.                                                 *)
(***************************************************************************)
C4_TextPriority ==
    pc = "returned" =>
        \A k \in InputKeys :
            TextRuns(k) # {} =>
                /\ FinalRow(k).ValueText \in { TextAt(i, k) : i \in TextRuns(k) }
                /\ FinalRow(k).ValueNumeric = BlankNum
                /\ IssuesFor(k, "numeric_variation") = {}

\* one run reports 0 and no text, another "Snow" and 2.0 (a spread beyond the
\* tolerance of 1.0): the key resolves to "Snow"
C4_Witness ==
    /\ pc = "returned"
    /\ Len(run_maps) = 2
    /\ RunsWith(KPrecipType) = {1, 2}
    /\ TextAt(1, KPrecipType) = <<>>
    /\ run_maps[1][KPrecipType].ValueNumeric = NumVal(0)
    /\ TextAt(2, KPrecipType) = <<"Snow">>
    /\ run_maps[2][KPrecipType].ValueNumeric = NumVal(2 * One)
    /\ FinalRow(KPrecipType).ValueText = <<"Snow">>

(***************************************************************************)
(* C5: in the text branch the final text is the most frequent normalised   *)
(* non-empty text of the runs, a tie going to the text met first in run    *)
(* order, so it is a text some run reported; a text_mismatch issue is      *)
(* emitted exactly when the runs' texts are not all equal, and it lists    *)
(* each distinct text once and the index of every run that gave a text.    *)
(***************************************************************************)
TextCount(k, v) == Cardinality({ i \in TextRuns(k) : TextAt(i, k) = v })

FirstRunWith(k, v) ==
    CHOOSE i \in TextRuns(k) :
        /\ TextAt(i, k) = v
        /\ \A j \in TextRuns(k) : TextAt(j, k) = v => i <= j

C5_TextMode ==
    pc = "returned" =>
        \A k \in InputKeys :
            TextRuns(k) # {} =>
                LET v == FinalRow(k).ValueText
                    distinct == { TextAt(i, k) : i \in TextRuns(k) }
                IN /\ v \in distinct
                   /\ \A u \in distinct :
                         /\ TextCount(k, u) <= TextCount(k, v)
                         /\ TextCount(k, u) = TextCount(k, v)
                               => FirstRunWith(k, v) <= FirstRunWith(k, u)
                   /\ IssuesFor(k, "text_mismatch") # {} <=> Cardinality(distinct) > 1
                   /\ \A issue \in IssuesFor(k, "text_mismatch") :
                         /\ { issue.values[q] : q \in DOMAIN issue.values } = distinct
                         /\ Len(issue.values) = Cardinality(distinct)
                         /\ issue.runs = RunIndices(TextRuns(k))

\* "Rain", "Snow", "Snow": the majority wins over the text met first;
\* the issue lists both texts and the three runs
C5_Witness ==
    /\ pc = "returned"
    /\ Len(run_maps) = 3
    /\ TextRuns(KPrecipType) = {1, 2, 3}
    /\ TextAt(1, KPrecipType) = <<"Rain">>
    /\ TextAt(2, KPrecipType) = <<"Snow">>
    /\ TextAt(3, KPrecipType) = <<"Snow">>
    /\ FinalRow(KPrecipType).ValueText = <<"Snow">>
    /\ \E issue \in IssuesFor(KPrecipType, "text_mismatch") : issue.runs = <<0, 1, 2>>

(***************************************************************************)
(* C6: the tolerance a key is compared with is the table's entry for       *)
(* (Section, MeasurementType) when there is one, be it 0; else the entry   *)
(* for (Section, Measurement) when there is one; else the caller's         *)
(* default: an issue is emitted exactly when the spread exceeds that       *)
(* tolerance (plus the guard) and reports that tolerance.  The table is    *)
(* never changed.                                                          *)
(***************************************************************************)
C6_Lookup ==
    pc = "returned" =>
        \A k \in InputKeys :
            (NumericBranch(k) /\ Cardinality(NumRuns(k)) >= 2) =>
                LET issues == IssuesFor(k, "numeric_variation")
                IN /\ Spread(k) > ExpectedTolerance(k) + EPSILON => issues # {}
                   /\ Spread(k) <= ExpectedTolerance(k) + EPSILON => issues = {}
                   /\ \A issue \in issues : issue.tolerance = ExpectedTolerance(k)

C6_ToleranceFallback == []C6_Lookup /\ [][tolerances' = tolerances]_vars

\* a zero entry for (Section, MeasurementType) stands over the entry of 5.0
\* for (Section, Measurement): 12 and 13 are reported with tolerance 0
C6_Witness ==
    /\ pc = "returned"
    /\ <<"Wind", "Speed">> \in DOMAIN tolerances
    /\ <<"Wind", "Wind">> \in DOMAIN tolerances
    /\ tolerances[<<"Wind", "Speed">>] = 0
    /\ NumericBranch(KWindSpeed)
    /\ Spread(KWindSpeed) = One
    /\ \E issue \in IssuesFor(KWindSpeed, "numeric_variation") : issue.tolerance = 0

(***************************************************************************)
(* C7: with exactly one RunMap, the consensus of every key is that run's   *)
(* value, normalised: its text when it has one, else its number rounded to *)
(* the display step, else its raw value; and no entry holds a              *)
(* numeric_variation, text_mismatch, location_mismatch or missing_runs     *)
(* issue.                                                                  *)
(***************************************************************************)
C7_SingleRun ==
    (pc = "returned" /\ Len(run_maps) = 1) =>
        /\ \A k \in DOMAIN run_maps[1] :
              LET given == run_maps[1][k]
                  final == FinalRow(k)
              IN IF TextAt(1, k) # <<>>
                 THEN final.ValueText = TextAt(1, k)
                 ELSE IF given.ValueNumeric.kind = "num"
                 THEN /\ final.ValueNumeric.kind = "num"
                      /\ IsQuantized(final.ValueNumeric.val,
                                     2 * given.ValueNumeric.val, Quantum(k))
                      /\ final.ValueText = <<>>
                 ELSE /\ final.ValueText = <<>>
                      /\ final.ValueNumeric =
                            IF given.ValueNumeric.kind = "str"
                            THEN given.ValueNumeric ELSE BlankNum
        /\ \A p \in DOMAIN disagreements :
              \A q \in DOMAIN disagreements[p].issues :
                  disagreements[p].issues[q].reason \notin
                      { "numeric_variation", "text_mismatch",
                        "location_mismatch", "missing_runs" }

\* the only run reports a freezing level of 85: the consensus is 80, the
\* value rounded to the nearest ten
C7_Witness ==
    /\ pc = "returned"
    /\ Len(run_maps) = 1
    /\ KFreezing \in DOMAIN run_maps[1]
    /\ run_maps[1][KFreezing].ValueNumeric = NumVal(85 * One)
    /\ FinalRow(KFreezing).ValueNumeric = NumVal(80 * One)
    /\ disagreements = <<>>

(***************************************************************************)
(* Vocabulary of the properties of harmonize_locations                     *)
(***************************************************************************)
\* the charts of a FinalRow map
ChartsOf(rows) == { GraphKey(rows[p].row) : p \in DOMAIN rows }

\* the rows of chart g, as positions
ChartRows(rows, g) == { p \in DOMAIN rows : GraphKey(rows[p].row) = g }

\* how many rows of chart g hold a Location that normalises to loc
LocationVotes(rows, g, loc) ==
    Cardinality({ p \in ChartRows(rows, g) :
                    normalize_location_string(rows[p].row.Location) = loc })

\* the non-empty normalised Locations of the rows of chart g
ChartLocations(rows, g) ==
    { normalize_location_string(rows[p].row.Location) : p \in ChartRows(rows, g) }
        \ { <<>> }

(***************************************************************************)
(* C8: harmonize_locations is idempotent: a second call in a row leaves    *)
(* the FinalRow map as the first call left it.                             *)
(***************************************************************************)
C8_Idempotent == calls >= 2 => final_rows = rows_before

Repaired ==
    /\ pc = "done"
    /\ batches # <<>>
    /\ batches[Len(batches)].suffix = "_rerun"

\* the rows of a FinalRow map whose chart is not flagged
UnflaggedRows(rows) ==
    SelectSeq(rows, LAMBDA r : GraphKey(r.row) \notin flagged_graphs)

(***************************************************************************)
(* C10: after the repair loop every FinalRow of a chart that is not        *)
(* flagged is, in every field, the row that aggregate_runs returned.       *)
(***************************************************************************)
C10_UnflaggedUntouched ==
    Repaired => UnflaggedRows(final_rows) = UnflaggedRows(aggregated_rows)

(***************************************************************************)
(* C17: how texts are compared                                             *)
(***************************************************************************)
\* the text of a record as the runs are compared on it: trimmed, and for
\* (Precip, Type) "No Precip" if it or its lower-cased form is an alias
ComparedText(k, raw) ==
    IF /\ k[3] = "Precip"
       /\ k[5] = "Type"
       /\ (Strip(raw) \in PRECIP_TYPE_ALIASES \/ Lower(Strip(raw)) \in PRECIP_TYPE_ALIASES)
    THEN NoPrecip
    ELSE Strip(raw)

\* the distinct non-empty texts the runs report for k
ComparedTexts(k) ==
    { ComparedText(k, run_maps[i][k].ValueText) : i \in RunsWith(k) } \ { <<>> }

\* C17: a key gets a text_mismatch issue exactly when its runs report more
\* than one distinct text, texts being compared case-sensitively after
\* trimming, except that for (Precip, Type) every alias of "No Precip" counts
\* as "No Precip"; the issue lists the distinct texts, and runs that agree
\* resolve to their text.
C17_TextComparison ==
    pc = "returned" =>
        \A k \in InputKeys :
            /\ IssuesFor(k, "text_mismatch") # {} <=> Cardinality(ComparedTexts(k)) > 1
            /\ \A issue \in IssuesFor(k, "text_mismatch") :
                  { issue.values[p] : p \in DOMAIN issue.values } = ComparedTexts(k)
            /\ Cardinality(ComparedTexts(k)) = 1 => FinalRow(k).ValueText \in ComparedTexts(k)

\* two runs report "Rain" and "rain" for (Precip, Type): a text_mismatch
C17_Witness ==
    /\ pc = "returned"
    /\ Len(run_maps) = 2
    /\ RunsWith(KPrecipType) = {1, 2}
    /\ run_maps[1][KPrecipType].ValueText = <<"Rain">>
    /\ run_maps[2][KPrecipType].ValueText = <<"rain">>
    /\ \E issue \in IssuesFor(KPrecipType, "text_mismatch") :
          issue.values = << <<"Rain">>, <<"rain">> >>

\* two runs report "None" and " no precip": "No Precip" and no issue
C17_AliasCase ==
    /\ pc = "returned"
    /\ Len(run_maps) = 2
    /\ RunsWith(KPrecipType) = {1, 2}
    /\ run_maps[1][KPrecipType].ValueText = <<"None">>
    /\ run_maps[2][KPrecipType].ValueText = <<" ", "no", " ", "precip">>
    /\ FinalRow(KPrecipType).ValueText = NoPrecip
    /\ IssuesFor(KPrecipType, "text_mismatch") = {}

(***************************************************************************)
(* C18: reconciliation by shards of the keys                               *)
(***************************************************************************)
\* the RunMaps with the records of the keys in S only
Restrict(maps, S) == [i \in DOMAIN maps |-> [k \in DOMAIN maps[i] \cap S |-> maps[i][k]]]

\* what aggregate_runs makes of the shard S
ShardOf(S) == aggregate_runs(Restrict(run_maps, S), tolerances, default_numeric_tolerance)

\* two disagreement lists, each ordered by key, merged in key order
RECURSIVE MergeByKey(_, _)
MergeByKey(a, b) ==
    IF a = <<>> THEN b
    ELSE IF b = <<>> THEN a
    ELSE IF KeyLess(Head(a).key, Head(b).key)
    THEN <<Head(a)>> \o MergeByKey(Tail(a), b)
    ELSE <<Head(b)>> \o MergeByKey(a, Tail(b))

\* the shard's result has, for each of its keys, the record and the entry of
\* the whole pass
SameAsWhole(out, S) ==
    /\ { out.reconciled[p].key : p \in DOMAIN out.reconciled } = S
    /\ \A k \in S :
          /\ SelectSeq(out.reconciled, LAMBDA r : r.key = k)
                = SelectSeq(rows_before, LAMBDA r : r.key = k)
          /\ SelectSeq(out.disagreements, LAMBDA e : e.key = k)
                = SelectSeq(disagreements, LAMBDA e : e.key = k)

\* C18: for every split of the keys into a shard and the rest, reconciling
\* the shard's restriction of the RunMaps gives each of its keys the
\* ValueNumeric, ValueText, pre-harmonization Location and issues of the
\* whole pass, and the two disagreement lists merged by key are the
\* disagreement list of the whole pass.
C18_ShardEquivalence ==
    (pc = "returned" /\ run_maps # <<>>) =>
        \A S \in SUBSET InputKeys :
            /\ SameAsWhole(ShardOf(S), S)
            /\ MergeByKey(ShardOf(S).disagreements, ShardOf(InputKeys \ S).disagreements)
                  = disagreements

\* three keys, two of them flagged, one in a run that holds nothing else
C18_Witness ==
    /\ pc = "returned"
    /\ Cardinality(InputKeys) = 3
    /\ Len(disagreements) >= 2
    /\ \E i \in DOMAIN run_maps : Cardinality(DOMAIN run_maps[i]) = 1
    /\ \E S \in SUBSET InputKeys :
          /\ ShardOf(S).disagreements # <<>>
          /\ ShardOf(InputKeys \ S).disagreements # <<>>

(***************************************************************************)
(* C19: aggregate_runs and its inputs                                      *)
(***************************************************************************)
\* the step of the call: the inputs are as before, and a second call on
\* them returns what the first returned
UnchangedInputs ==
    pc = "aggregate_runs" =>
        /\ run_maps' = run_maps
        /\ tolerances' = tolerances
        /\ default_numeric_tolerance' = default_numeric_tolerance
        /\ aggregate_runs(run_maps', tolerances', default_numeric_tolerance').final_rows
              = final_rows'
        /\ aggregate_runs(run_maps', tolerances', default_numeric_tolerance').disagreements
              = disagreements'

NonEmptyLocations(k) ==
    { normalize_location_string(run_maps[i][k].Location) : i \in RunsWith(k) } \ { <<>> }

\* C20: a key gets a location_mismatch issue exactly when its records have
\* more than one distinct non-empty normalised Location, and the issue
\* lists exactly those Locations, never "", also when a record's raw
\* Location is a placeholder such as "unknown".
C20_LocationCandidates ==
    pc = "returned" =>
        \A k \in InputKeys :
            /\ IssuesFor(k, "location_mismatch") # {}
                  <=> Cardinality(NonEmptyLocations(k)) > 1
            /\ \A issue \in IssuesFor(k, "location_mismatch") :
                  { issue.locations[p] : p \in DOMAIN issue.locations }
                      = NonEmptyLocations(k)

\* the part of C20 the code keeps: records whose raw Locations are no
\* placeholders get the issue as the claim says
C20_NoPlaceholder ==
    pc = "returned" =>
        \A k \in InputKeys :
            (\A i \in RunsWith(k) :
                normalize_location_string(run_maps[i][k].Location) # <<>>
                    \/ Strip(run_maps[i][k].Location) = <<>>) =>
                /\ IssuesFor(k, "location_mismatch") # {}
                      <=> Cardinality(NonEmptyLocations(k)) > 1
                /\ \A issue \in IssuesFor(k, "location_mismatch") :
                      { issue.locations[p] : p \in DOMAIN issue.locations }
                          = NonEmptyLocations(k)

(***************************************************************************)
(* ValidSpec: _validate_series called on a series.  The series are those   *)
(* of the three kinds with up to MaxHours hours, each defining field zero  *)
(* or not, and the payloads without hours.                                 *)
(***************************************************************************)
\* the most hours of a series _validate_series is called on
MaxHours == 2

\* nothing but the called function runs
Idle ==
    /\ run_maps = <<>>
    /\ tolerances = DEFAULT_NUMERIC_TOLERANCES
    /\ default_numeric_tolerance = One
    /\ final_rows = <<>>
    /\ disagreements = <<>>
    /\ rows_before = <<>>
    /\ calls = 0
    /\ NoPipeline

\* the numeric fields _series_all_zero reads of an hour of the kind
DefiningFields(kind) ==
    IF kind = "wind" THEN {"wind_speed_mph", "wind_gust_mph"}
    ELSE IF kind = "precipitation" THEN {"rain_mm", "snow_cm"}
    ELSE {"air_temp_c", "freezing_level_m", "wet_bulb_freezing_level_m"}

\* what a defining field may hold: zero, or a reading that is not zero
FieldValues(field) ==
    IF field = "air_temp_c" THEN { NumVal(0), NumVal(0 - Half(5)) }
    ELSE { NumVal(0), NumVal(Half(1)) }

\* an hour of the kind with the defining fields as f gives them
HourOf(kind, h, f) ==
    IF kind = "wind"
    THEN [ hour_index |-> h - 1, hour_label |-> HourLabels[h],
           wind_speed_mph |-> f["wind_speed_mph"], wind_gust_mph |-> f["wind_gust_mph"],
           wind_direction |-> <<"N">> ]
    ELSE IF kind = "precipitation"
    THEN [ hour_index |-> h - 1, hour_label |-> HourLabels[h],
           rain_mm |-> f["rain_mm"], snow_cm |-> f["snow_cm"],
           precip_type |-> <<"None">> ]
    ELSE [ hour_index |-> h - 1, hour_label |-> HourLabels[h],
           air_temp_c |-> f["air_temp_c"], freezing_level_m |-> f["freezing_level_m"],
           wet_bulb_freezing_level_m |-> f["wet_bulb_freezing_level_m"] ]

\* the series of n hours, the field x of hour h being f[<<h, x>>]
SeriesOf(kind, n, f) ==
    [ location |-> BenNevis,
      hours |-> [h \in 1..n |-> HourOf(kind, h, [x \in DefiningFields(kind) |-> f[<<h, x>>]])] ]

ValidInit ==
    /\ pc = "call"
    /\ Idle
    /\ call_result = <<>>
    /\ NoWait
    /\ \E kind \in DEFAULT_KINDS :
          \/ call_args = [kind |-> kind, payload |-> [location |-> BenNevis]]
          \/ \E n \in 0..MaxHours :
                \E f \in [(1..n) \X DefiningFields(kind) ->
                             UNION { FieldValues(x) : x \in DefiningFields(kind) }] :
                    /\ \A c \in DOMAIN f : f[c] \in FieldValues(c[2])
                    /\ call_args = [kind |-> kind, payload |-> SeriesOf(kind, n, f)]

ValidateSeries ==
    /\ pc = "call"
    /\ call_result' = _validate_series(call_args.kind, call_args.payload)
    /\ pc' = "returned"
    /\ UNCHANGED << run_maps, tolerances, default_numeric_tolerance, final_rows,
                    disagreements, rows_before, calls, pipe_vars, call_args, wait_vars >>

ValidNext == ValidateSeries

ValidSpec == ValidInit /\ [][ValidNext]_vars

\* some defining field of the hour is not zero
NonZeroHour(kind, h) == \E x \in DefiningFields(kind) : h[x] # NumVal(0)

\* C13: _validate_series rejects with empty_hours exactly the payloads whose
\* hours are empty or absent; of the others it rejects with all_zero_series
\* exactly those where every defining field of every hour is zero, and it
\* accepts the rest, so a series with one defining value that is not zero is
\* accepted.
C13_Verdict ==
    pc = "returned" =>
        /\ (call_result.reason = "empty_hours") <=> (Hours(call_args.payload) = <<>>)
        /\ (call_result.reason = "all_zero_series") <=>
              /\ Hours(call_args.payload) # <<>>
              /\ \A h \in DOMAIN Hours(call_args.payload) :
                    ~NonZeroHour(call_args.kind, Hours(call_args.payload)[h])
        /\ call_result.ok <=> (call_result.reason = "")
        /\ call_result.ok <=>
              \E h \in DOMAIN Hours(call_args.payload) :
                  NonZeroHour(call_args.kind, Hours(call_args.payload)[h])

\* a series of MaxHours hours with an all-zero hour and one hour with a
\* single defining value that is not zero is accepted
C13_Witness ==
    /\ pc = "returned"
    /\ call_result.ok
    /\ Len(Hours(call_args.payload)) = MaxHours
    /\ \E h \in DOMAIN Hours(call_args.payload) :
          ~NonZeroHour(call_args.kind, Hours(call_args.payload)[h])
    /\ Cardinality({ c \in (DOMAIN Hours(call_args.payload)) \X DefiningFields(call_args.kind) :
                       Hours(call_args.payload)[c[1]][c[2]] # NumVal(0) }) = 1

(***************************************************************************)
(* LocSpec: normalize_location_string called on a string, then on what it  *)
(* returned, up to MaxCalls times.  The strings are a place name or a      *)
(* placeholder word behind up to MaxNested descriptor prefixes, with or    *)
(* without an elevation annotation and surrounding whitespace.             *)
(***************************************************************************)
\* the most descriptor prefixes in front of a string
MaxNested == 2

\* what stands behind the prefixes: nothing, a placeholder word, a place
LocBodies == { <<>>, <<"unknown">>, <<"Unknown">>, <<"N/A">>, BenNevis }

\* what follows: nothing, an elevation with and without whitespace before
\* the m, one already rewritten, one that is not at the end
LocTails ==
    { <<>>,
      <<" ", "(", "1345", "m", ")">>,
      <<" ", "(", "1345", " ", "m", ")">>,
      <<" ", "(", "1345", " ", "metres", ")">>,
      <<" ", "(", "1345", "m", ")", " ", "summit">> }

\* the string with the prefixes f[1], .., f[n] in front of body and tail
LocString(lead, f, body, tail, trail) ==
    lead \o ConcatAll([i \in DOMAIN f |-> LOCATION_PREFIXES[f[i]]]) \o body \o tail \o trail

LocInit ==
    /\ pc = "call"
    /\ Idle
    /\ call_result = <<>>
    /\ NoWait
    /\ \E n \in 0..MaxNested : \E f \in [1..n -> DOMAIN LOCATION_PREFIXES] :
          \E lead \in {<<>>, <<WS>>}, trail \in {<<>>, <<WS>>} :
              \E body \in LocBodies, tail \in LocTails :
                  call_args = LocString(lead, f, body, tail, trail)

\* normalize_location_string called on the string, or on its last result
NormalizeLocation ==
    /\ Len(call_result) < MaxCalls
    /\ call_result' =
          Append(call_result,
                 normalize_location_string(IF call_result = <<>> THEN call_args
                                           ELSE call_result[Len(call_result)]))
    /\ pc' = "returned"
    /\ UNCHANGED << run_maps, tolerances, default_numeric_tolerance, final_rows,
                    disagreements, rows_before, calls, pipe_vars, call_args, wait_vars >>

LocNext == NormalizeLocation

LocSpec == LocInit /\ [][LocNext]_vars

\* C15: normalize_location_string is idempotent: called on its own result it
\* returns that result, also for strings with a repeated descriptor prefix
\* or a placeholder word behind a prefix.
C15_Idempotent ==
    Len(call_result) >= 2 => call_result[2] = call_result[1]

\* s without the leading descriptor prefix it starts with, if it has one
WithoutPrefix(s) ==
    IF \E i \in DOMAIN LOCATION_PREFIXES : StartsWith(s, LOCATION_PREFIXES[i])
    THEN LET i == CHOOSE i \in DOMAIN LOCATION_PREFIXES : StartsWith(s, LOCATION_PREFIXES[i])
         IN SubSeq(s, Len(LOCATION_PREFIXES[i]) + 1, Len(s))
    ELSE s

\* k whitespace tokens
RECURSIVE Blanks(_)
Blanks(k) == IF k = 0 THEN <<>> ELSE <<WS>> \o Blanks(k - 1)

\* r is s with a trailing "(<digits>", up to gap whitespace, "m)" rewritten
\* to "(<digits> metres)", or s itself if s does not end so
Rewritten(s, r, gap) ==
    IF \E k \in 0..gap, d \in DigitTokens :
          /\ Len(s) >= k + 4
          /\ SubSeq(s, Len(s) - k - 3, Len(s)) = <<"(", d>> \o Blanks(k) \o <<"m", ")">>
    THEN \E k \in 0..gap, d \in DigitTokens :
          /\ Len(s) >= k + 4
          /\ SubSeq(s, Len(s) - k - 3, Len(s)) = <<"(", d>> \o Blanks(k) \o <<"m", ")">>
          /\ r = SubSeq(s, 1, Len(s) - k - 4) \o <<"(", d, " ", "metres", ")">>
    ELSE r = s

\* the claim about the first result r of normalising s, the elevation being
\* rewritten with up to gap whitespace before the m
Normalized(s, r, gap) ==
    IF Lower(Strip(s)) \in LOCATION_PLACEHOLDER_VALUES
    THEN r = <<>>
    ELSE Rewritten(Strip(WithoutPrefix(Strip(s))), r, gap)

\* C16 as stated: "" for a placeholder; otherwise one leading descriptor
\* prefix removed and a trailing "(<digits>m)" rewritten to
\* "(<digits> metres)", nothing else changed.
C16_Original ==
    Len(call_result) >= 1 => Normalized(call_args, call_result[1], 0)

\* C16: "" for a placeholder; otherwise one leading descriptor prefix removed
\* and a trailing "(<digits>", optional whitespace, "m)" rewritten to
\* "(<digits> metres)", nothing else changed but surrounding whitespace.
C16_Normalized ==
    Len(call_result) >= 1 => Normalized(call_args, call_result[1], Len(call_args))

\* "Wind - Ben Nevis (1345m)" has become "Ben Nevis (1345 metres)"
C16_Witness ==
    /\ call_args = WindPrefix \o BenNevis \o <<" ", "(", "1345", "m", ")">>
    /\ call_result # <<>>
    /\ call_result[1] = BenNevis \o <<" ", "(", "1345", " ", "metres", ")">>

(***************************************************************************)
(* BatchSpec: the batch of the repair built for a set of flagged charts.   *)
(* The detection results hold two pages of a.pdf; a graph of a kind is     *)
(* absent, detected with a bbox or detected without one.                   *)
(***************************************************************************)
\* the graphs of a page: for each kind in f, detected with a bbox or not
GraphsOf(kinds, f) ==
    [i \in DOMAIN SelectSeq(kinds, LAMBDA k : f[k] # "absent") |->
        [kind |-> SelectSeq(kinds, LAMBDA k : f[k] # "absent")[i],
         bbox |-> f[SelectSeq(kinds, LAMBDA k : f[k] # "absent")[i]] = "bbox"]]

\* the detection results: page 2 with any of the three kinds, page 3 with
\* wind and precipitation
BatchDetection(f2, f3) ==
    << [file |-> "a.pdf", page |-> 2, location |-> BenNevis,
        graphs |-> GraphsOf(<<"wind", "precipitation", "temperature">>, f2)],
       [file |-> "a.pdf", page |-> 3, location |-> BenNevis,
        graphs |-> GraphsOf(<<"precipitation", "wind">>, f3)] >>

\* the charts of the detected graphs, as flagged_graphs names them
DetectedCharts(detection) ==
    { c \in { <<detection[i].file, detection[i].page, section>> :
                i \in DOMAIN detection, section \in {"Wind", "Precip", "Temperature"} } :
        \E i \in DOMAIN detection :
            /\ detection[i].page = c[2]
            /\ \E j \in DOMAIN detection[i].graphs :
                  detection[i].graphs[j].kind = SECTION_KIND_MAP(c[3]) }

BatchInit ==
    /\ pc = "call"
    /\ Idle
    /\ call_result = <<>>
    /\ NoWait
    /\ \E f2 \in [{"wind", "precipitation", "temperature"} -> {"absent", "bbox", "no bbox"}] :
          \E f3 \in [{"wind", "precipitation"} -> {"absent", "bbox"}] :
              \E flagged \in SUBSET DetectedCharts(BatchDetection(f2, f3)) \ {{}} :
                  call_args = [detection |-> BatchDetection(f2, f3), flagged |-> flagged]

\* lines 681-715 with flagged_graphs not empty
BuildRerun ==
    /\ pc = "call"
    /\ call_result' = RerunBatch(call_args.detection, OnlyGraphs(call_args.flagged))
    /\ pc' = "returned"
    /\ UNCHANGED << run_maps, tolerances, default_numeric_tolerance, final_rows,
                    disagreements, rows_before, calls, pipe_vars, call_args, wait_vars >>

BatchNext == BuildRerun

BatchSpec == BatchInit /\ [][BatchNext]_vars

\* the flagged chart-kinds that have a detected crop
FlaggedCrops ==
    { <<g[1], g[2], SECTION_KIND_MAP(g[3])>> : g \in
        { h \in call_args.flagged :
            \E i \in DOMAIN call_args.detection :
                /\ call_args.detection[i].file = h[1]
                /\ call_args.detection[i].page = h[2]
                /\ \E j \in DOMAIN call_args.detection[i].graphs :
                      /\ call_args.detection[i].graphs[j].kind = SECTION_KIND_MAP(h[3])
                      /\ call_args.detection[i].graphs[j].bbox } }

\* C24: the batch of the repair holds exactly one request for each flagged
\* (SourceFile, Page, kind) that has a detected crop, none for a chart-kind
\* that is not flagged, be it on the page of a flagged one, and no combined
\* request.
C24_OneRequestPerFlagged ==
    pc = "returned" =>
        /\ \A g \in FlaggedCrops :
              Cardinality({ i \in DOMAIN call_result :
                  call_result[i] = [file |-> g[1], page |-> g[2], kind |-> g[3]] }) = 1
        /\ \A i \in DOMAIN call_result :
              /\ <<call_result[i].file, call_result[i].page, call_result[i].kind>>
                    \in FlaggedCrops
              /\ call_result[i].kind # "combined"

\* wind is flagged on page 2 only; page 2 has all three kinds with a crop and
\* page 3 a wind graph too: the batch is the one wind request of page 2
C24_Witness ==
    /\ pc = "returned"
    /\ call_args.flagged = { <<"a.pdf", 2, "Wind">> }
    /\ Len(call_args.detection[1].graphs) = 3
    /\ \A j \in 1..3 : call_args.detection[1].graphs[j].bbox
    /\ Len(call_args.detection[2].graphs) = 2
    /\ call_result = << [file |-> "a.pdf", page |-> 2, kind |-> "wind"] >>

(***************************************************************************)
(* The validity filter in run_pipeline                                     *)
(***************************************************************************)
\* the invalid entries of the results file of batch b
InvalidOf(b) == load_structured_results(answers[b]).invalid_entries

\* the values of a chart's rows: for each key, ValueNumeric and ValueText
ChartValues(rows, file, page, kind) ==
    { [key |-> rows[i].key, ValueNumeric |-> rows[i].row.ValueNumeric,
       ValueText |-> rows[i].row.ValueText] :
        i \in { j \in DOMAIN rows : /\ rows[j].key[1] = file
                                    /\ rows[j].key[2] = page
                                    /\ SECTION_KIND_MAP(rows[j].key[3]) = kind } }

\* the repair's failure is in the report: the last summary of invalid_runs
\* counts the repair's invalid entries
FailureRecorded ==
    /\ "invalid_runs" \in DOMAIN report
    /\ Len(report.invalid_runs) = Len(answers)
    /\ report.invalid_runs[Len(answers)].total_invalid = Len(InvalidOf(Len(answers)))

\* the rows of the chart of an invalid entry are as aggregate_runs left them
ConsensusKept(e) ==
    ChartValues(final_rows, e.file, e.page, e.kind)
        = ChartValues(aggregated_rows, e.file, e.page, e.kind)

\* C11: after a repair whose re-read series of a flagged chart-kind fails the
\* validity filter (empty or all-zero hours), the rows of that chart in
\* final_rows keep the ValueNumeric and ValueText aggregate_runs gave them,
\* and the report's invalid_runs records the failure.
C11_RepairFailureKept ==
    (Repaired /\ InvalidOf(Len(answers)) # <<>>) =>
        /\ FailureRecorded
        /\ \A i \in DOMAIN InvalidOf(Len(answers)) :
              ConsensusKept(InvalidOf(Len(answers))[i])

\* the part of C11 the code keeps: the failure is recorded
C11_Recorded == (Repaired /\ InvalidOf(Len(answers)) # <<>>) => FailureRecorded

\* the keys of a RunMap that belong to the series of an invalid entry
SeriesKeys(run_map, e) ==
    { k \in DOMAIN run_map :
        k[1] = e.file /\ k[2] = e.page /\ SECTION_KIND_MAP(k[3]) = e.kind }

\* C12: a series that the validity filter rejects for a run (empty_hours or
\* all_zero_series) has no record in that run's RunMap, the one handed to
\* aggregate_runs.
C12_RejectedExcluded ==
    \A b \in DOMAIN run_maps \cap DOMAIN answers :
        \A i \in DOMAIN InvalidOf(b) : SeriesKeys(run_maps[b], InvalidOf(b)[i]) = {}

\* the part of C12 the code keeps: a series rejected for empty_hours has no
\* record
C12_EmptyExcluded ==
    \A b \in DOMAIN run_maps \cap DOMAIN answers :
        \A i \in DOMAIN InvalidOf(b) :
            InvalidOf(b)[i].reason = "empty_hours" =>
                SeriesKeys(run_maps[b], InvalidOf(b)[i]) = {}

(***************************************************************************)
(* The repair in run_pipeline                                              *)
(***************************************************************************)
\* the batches of the repair
RerunBatches == { b \in DOMAIN batches : batches[b].suffix = "_rerun" }

\* at most one repair batch, submitted only for flagged charts with
\* rerun_on_disagreement set; the repair's answers are in no RunMap; the
\* written report has a rerun entry exactly when the repair ran
RepairOnce ==
    /\ Cardinality(RerunBatches) <= 1
    /\ RerunBatches # {} => (flagged_graphs # {} /\ rerun_on_disagreement)
    /\ Len(run_maps) <= extraction_repeats
    /\ Repaired => (Len(answers) = Len(run_maps) + 1 /\ Len(batches) = Len(answers))
    /\ pc = "done" => (("rerun" \in DOMAIN report) <=> Repaired)

\* the step of the repair: it ends the pipeline, reconciles nothing and
\* submits nothing
RepairStep ==
    pc = "rerun" =>
        /\ pc' = "done"
        /\ run_maps' = run_maps
        /\ disagreements' = disagreements
        /\ flagged_graphs' = flagged_graphs
        /\ batches' = batches

\* C14: in one run_pipeline invocation the repair batch is submitted at most
\* once, and only when a chart is flagged and rerun_on_disagreement is set;
\* the repair's readings are not reconciled again and start no further
\* repair; the report has a rerun entry exactly when the repair was executed.
C14_RepairOnce == []RepairOnce /\ [][RepairStep]_vars

\* the repair has run and the report has its rerun entry
C14_Witness ==
    /\ Repaired
    /\ "rerun" \in DOMAIN report
    /\ report.rerun.graphs # <<>>
    /\ Cardinality(RerunBatches) = 1

(***************************************************************************)
(* C21..C23, C27, C28: the issues and the entries of aggregate_runs        *)
(***************************************************************************)
\* the runs (positions from 1) that hold no record for k
RunsWithout(k) == DOMAIN run_maps \ RunsWith(k)

\* the issues of the entry of k, <<>> if k has no entry
IssueList(k) ==
    IF \E p \in DOMAIN disagreements : disagreements[p].key = k
    THEN disagreements[CHOOSE p \in DOMAIN disagreements : disagreements[p].key = k].issues
    ELSE <<>>

\* C21: a key gets a missing_runs issue exactly when some run holds no
\* record for it; the issue lists the indices (from 0) of exactly those
\* runs, and the key has its FinalRow all the same.
C21_MissingRuns ==
    pc = "returned" =>
        \A k \in InputKeys :
            /\ IssuesFor(k, "missing_runs") # {} <=> RunsWithout(k) # {}
            /\ \A issue \in IssuesFor(k, "missing_runs") :
                  issue.runs = RunIndices(RunsWithout(k))
            /\ Cardinality({ q \in DOMAIN IssueList(k) :
                               IssueList(k)[q].reason = "missing_runs" }) <= 1
            /\ k \in FinalKeys

\* of three runs the first and the last hold no record for a key: the issue
\* lists runs 0 and 2 and the FinalRow has the value of the second run
C21_Witness ==
    /\ pc = "returned"
    /\ Len(run_maps) = 3
    /\ RunsWith(KWindSpeed) = {2}
    /\ \E issue \in IssuesFor(KWindSpeed, "missing_runs") : issue.runs = <<0, 2>>
    /\ FinalRow(KWindSpeed).ValueNumeric = run_maps[2][KWindSpeed].ValueNumeric

\* the first run (position from 1) that holds a record for k
FirstRun(k) == CHOOSE i \in RunsWith(k) : \A j \in RunsWith(k) : i <= j

\* C22: a key gets a missing_values issue exactly when none of its records
\* has a non-empty normalised text and none a ValueNumeric that float()
\* accepts; its FinalRow is produced all the same and carries the value of
\* the first available record as it is (an absent ValueNumeric reads as
\* blank, the text is the record's, trimmed, which is empty).
C22_MissingValues ==
    pc = "returned" =>
        \A k \in InputKeys :
            /\ IssuesFor(k, "missing_values") # {} <=> (TextRuns(k) = {} /\ NumRuns(k) = {})
            /\ k \in FinalKeys
            /\ (TextRuns(k) = {} /\ NumRuns(k) = {}) =>
                  /\ FinalRow(k).ValueNumeric =
                        IF run_maps[FirstRun(k)][k].ValueNumeric = NoneNum
                        THEN BlankNum
                        ELSE run_maps[FirstRun(k)][k].ValueNumeric
                  /\ FinalRow(k).ValueText = Strip(run_maps[FirstRun(k)][k].ValueText)
                  /\ FinalRow(k).Notes = run_maps[FirstRun(k)][k].Notes

\* the first of two records holds a string that is no number, the second
\* nothing: missing_values, and the FinalRow carries the string
C22_Witness ==
    /\ pc = "returned"
    /\ Len(run_maps) = 3
    /\ RunsWith(KCloud) = {2, 3}
    /\ run_maps[2][KCloud].ValueNumeric = BadNum
    /\ run_maps[3][KCloud].ValueNumeric = NoneNum
    /\ IssuesFor(KCloud, "missing_values") # {}
    /\ FinalRow(KCloud).ValueNumeric = BadNum

\* C23: the disagreement list is in strictly ascending lexicographic order
\* of its entries' key tuples, whatever the RunMaps the keys come from.
C23_AscendingEntries ==
    pc = "returned" =>
        \A p \in DOMAIN disagreements : \A q \in DOMAIN disagreements :
            p < q => KeyLess(disagreements[p].key, disagreements[q].key)

\* three keys have entries, the key that sorts first held by the last run
\* only
C23_Witness ==
    /\ pc = "returned"
    /\ Len(disagreements) = 3
    /\ Len(run_maps) = 3
    /\ RunsWith(disagreements[1].key) = {3}
    /\ RunsWith(disagreements[3].key) = {1}

\* how many issues of the entry have one of the reasons
ReasonCount(entry, reasons) ==
    Cardinality({ q \in DOMAIN entry.issues : entry.issues[q].reason \in reasons })

(***************************************************************************)
(* C27: within one DisagreementEntry each reason occurs at most once and   *)
(* at most one of text_mismatch, numeric_variation and missing_values      *)
(* occurs; the one that occurs is that of the branch that settles the key: *)
(* text when a run supplies a text, numeric when none does and a run       *)
(* supplies a number, the fallback otherwise.                              *)
(***************************************************************************)
C27_OneValueIssue ==
    pc = "returned" =>
        \A p \in DOMAIN disagreements :
            /\ \A reason \in { "missing_runs", "location_mismatch", "text_mismatch",
                               "numeric_variation", "missing_values" } :
                  ReasonCount(disagreements[p], {reason}) <= 1
            /\ ReasonCount(disagreements[p],
                   { "text_mismatch", "numeric_variation", "missing_values" }) <= 1
            /\ ReasonCount(disagreements[p], {"text_mismatch"}) = 1
                  => TextRuns(disagreements[p].key) # {}
            /\ ReasonCount(disagreements[p], {"numeric_variation"}) = 1
                  => NumericBranch(disagreements[p].key)
            /\ ReasonCount(disagreements[p], {"missing_values"}) = 1
                  => /\ TextRuns(disagreements[p].key) = {}
                     /\ NumRuns(disagreements[p].key) = {}

\* the runs report two different precipitation types and two numbers that
\* differ by more than the tolerance: the entry holds the text mismatch alone
C27_Witness ==
    /\ pc = "returned"
    /\ Cardinality(TextRuns(KPrecipType)) = 2
    /\ Cardinality(NumRuns(KPrecipType)) = 2
    /\ Spread(KPrecipType) > ExpectedTolerance(KPrecipType)
    /\ Len(disagreements) = 1
    /\ disagreements[1].key = KPrecipType
    /\ Len(disagreements[1].issues) = 1
    /\ disagreements[1].issues[1].reason = "text_mismatch"

\* the Locations of k that are compared: the normalised Locations of the
\* records whose Location is not blank
ComparedLocations(k) ==
    { normalize_location_string(run_maps[i][k].Location) :
        i \in { j \in RunsWith(k) : Strip(run_maps[j][k].Location) # <<>> } }

\* the runs give rise to an issue for k: a run lacks it, the Locations or
\* the texts differ, the numbers vary beyond the tolerance, or no run
\* supplies a value
HasIssues(k) ==
    \/ RunsWithout(k) # {}
    \/ Cardinality(ComparedLocations(k)) > 1
    \/ Cardinality(ComparedTexts(k)) > 1
    \/ NumericBranch(k) /\ Spread(k) > ExpectedTolerance(k) + EPSILON
    \/ TextRuns(k) = {} /\ NumRuns(k) = {}

(***************************************************************************)
(* C28: aggregate_runs emits exactly one DisagreementEntry for each key    *)
(* that has an issue and none for a key without: every entry has at least  *)
(* one issue, no key is in two entries, and every entry's key has a        *)
(* FinalRow.                                                               *)
(***************************************************************************)
C28_OneEntryPerIssueKey ==
    pc = "returned" =>
        /\ \A k \in InputKeys :
              Cardinality({ p \in DOMAIN disagreements : disagreements[p].key = k })
                  = IF HasIssues(k) THEN 1 ELSE 0
        /\ \A p \in DOMAIN disagreements :
              /\ disagreements[p].issues # <<>>
              /\ disagreements[p].key \in FinalKeys

\* two keys reconciled: both runs hold the first and agree on it, one run
\* lacks the second, which alone gets an entry
C28_Witness ==
    /\ pc = "returned"
    /\ Len(run_maps) = 2
    /\ Cardinality(FinalKeys) = 2
    /\ \E k \in InputKeys : RunsWith(k) = {1, 2} /\ ~HasIssues(k)
    /\ Len(disagreements) = 1
    /\ RunsWithout(disagreements[1].key) # {}

(***************************************************************************)
(* C29: harmonize_locations changes nothing but the Location field: the    *)
(* FinalRow map has the same keys in the same order after the call as      *)
(* before, and every row is the row before the call but for its Location.  *)
(***************************************************************************)
C29_OnlyLocation ==
    (pc = "harmonize_locations" /\ calls >= 1) =>
        /\ Len(final_rows) = Len(rows_before)
        /\ \A p \in DOMAIN final_rows :
              /\ final_rows[p].key = rows_before[p].key
              /\ DOMAIN final_rows[p].row = DOMAIN rows_before[p].row
              /\ \A field \in DOMAIN final_rows[p].row \ {"Location"} :
                    final_rows[p].row[field] = rows_before[p].row[field]

\* a call has rewritten the Location of one row and left that of another
C29_Witness ==
    /\ pc = "harmonize_locations"
    /\ calls >= 1
    /\ \E p, q \in DOMAIN final_rows :
          /\ final_rows[p].row.Location # rows_before[p].row.Location
          /\ final_rows[q].row.Location = rows_before[q].row.Location
          /\ final_rows[q].row.Location # <<>>

(***************************************************************************)
(* C25: the order of harmonization in run_pipeline                         *)
(***************************************************************************)
\* the positions of the rows of the chart of row p
SameChart(before, p) ==
    { q \in DOMAIN before : GraphKey(before[q].row) = GraphKey(before[p].row) }

\* loc is the Location the chart with these rows gets: a most frequent one
\* of the non-empty normalised Locations of its rows, or "" if there is
\* none; norm holds <<q, the normalised Location of row q>> for every row
ChartWinner(loc, norm, chart) ==
    IF \A v \in norm : v[1] \in chart => v[2] = <<>>
    THEN loc = <<>>
    ELSE /\ loc # <<>>
         /\ \A v \in norm :
               (v[1] \in chart /\ v[2] # <<>>) =>
                   Cardinality({ w \in norm : w[1] \in chart /\ w[2] = v[2] })
                       <= Cardinality({ w \in norm : w[1] \in chart /\ w[2] = loc })
         /\ \E v \in norm : v[1] \in chart /\ v[2] = loc

HarmonizesFrom(after, before, norm) ==
    /\ Len(after) = Len(before)
    /\ \A p \in DOMAIN after :
          /\ after[p].key = before[p].key
          /\ ChartWinner(after[p].row.Location, norm, SameChart(before, p))

\* after is before with, on every row, the Location its chart gets
Harmonizes(after, before) ==
    HarmonizesFrom(after, before,
        { <<p, normalize_location_string(before[p].row.Location)>> : p \in DOMAIN before })

\* every row of the repair is the row of its key in the map
PatchedIn(repair_rows, rows) ==
    { repair_rows[q] : q \in DOMAIN repair_rows } \subseteq { rows[p] : p \in DOMAIN rows }

\* the rows of the repair's answers, by key
RepairRows ==
    dataframe_to_row_map(parse_jsonl_file(answers[Len(answers)],
                                          DetectionLocations(detection_map)))

ChartHour(key) == << key[1], key[2], key[3], key[4], key[5], key[6] >>

(***************************************************************************)
(* C26: the repair only overwrites FinalRows: after the patch the keys of  *)
(* the FinalRow map are the keys of the original RunMaps, each once, and   *)
(* no hour of a chart has two rows.                                        *)
(***************************************************************************)
C26_KeysKept ==
    Repaired =>
        /\ FinalKeys = InputKeys
        /\ Len(final_rows) = Cardinality(InputKeys)
        /\ \A p, q \in DOMAIN final_rows :
              ChartHour(final_rows[p].key) = ChartHour(final_rows[q].key) => p = q

(***************************************************************************)
(* PollSpec: one call of submit_and_wait and the service that works on the *)
(* batch.  A file id is a string, "" where the batch has none.             *)
(***************************************************************************)
\* a variant of Finish: the results file is written whenever the batch
\* completed
Finish_AnyCompleted ==
    /\ pc = "ended"
    /\ IF retrieved.status # "completed"
       THEN pc' = "SystemExit" /\ files' = files
       ELSE pc' = "returned" /\ files' = files \cup {"results"}
    /\ UNCHANGED << run_maps, tolerances, default_numeric_tolerance, final_rows,
                    disagreements, rows_before, calls, pipe_vars, call_args,
                    call_result, batch, retrieved >>

\* the statuses that end the loop (line 547)
EndStatuses == { "completed", "failed", "expired", "canceled" }

\* the statuses the service may give a batch next
StatusesAfter(status) ==
    CASE status = "validating" -> { "in_progress", "failed" }
      [] status = "in_progress" -> { "finalizing", "expired", "cancelling" }
      [] status = "finalizing" -> { "completed" }
      [] status = "cancelling" -> { "canceled" }
      [] OTHER -> {}

PollInit ==
    /\ pc = "submit_and_wait"
    /\ Idle
    /\ NoCall

\* lines 536-543: the file uploaded, the batch created
CreateBatch ==
    /\ pc = "submit_and_wait"
    /\ batch' = [status |-> "validating", output_file_id |-> "", error_file_id |-> ""]
    /\ pc' = "retrieve"
    /\ UNCHANGED << run_maps, tolerances, default_numeric_tolerance, final_rows,
                    disagreements, rows_before, calls, pipe_vars, call_args,
                    call_result, retrieved, files >>

\* the file ids a batch may get with a status: an output file, an error
\* file, both or none once it has come to an end
FileIds(status) == IF status \in EndStatuses THEN {"", "file"} ELSE {""}

\* the service moves the batch on
Progress ==
    /\ batch # <<>>
    /\ \E status \in StatusesAfter(batch.status) :
          \E out \in FileIds(status) : \E err \in FileIds(status) :
              batch' = [status |-> status,
                        output_file_id |-> IF out = "" THEN "" ELSE "file-out",
                        error_file_id |-> IF err = "" THEN "" ELSE "file-err"]
    /\ UNCHANGED << pc, run_maps, tolerances, default_numeric_tolerance, final_rows,
                    disagreements, rows_before, calls, pipe_vars, call_args,
                    call_result, retrieved, files >>

\* lines 545-548: the batch retrieved, the loop left on an end status
Retrieve ==
    /\ pc = "retrieve"
    /\ retrieved' = batch
    /\ pc' = IF batch.status \in EndStatuses THEN "ended" ELSE "sleep"
    /\ UNCHANGED << run_maps, tolerances, default_numeric_tolerance, final_rows,
                    disagreements, rows_before, calls, pipe_vars, call_args,
                    call_result, batch, files >>

\* line 549: time.sleep(poll_interval)
Sleep ==
    /\ pc = "sleep"
    /\ pc' = "retrieve"
    /\ UNCHANGED << run_maps, tolerances, default_numeric_tolerance, final_rows,
                    disagreements, rows_before, calls, pipe_vars, call_vars >>

\* lines 550-567: SystemExit unless the batch completed with an output
\* file; the error file, if there is one, is saved beside the results file
Finish ==
    /\ pc = "ended"
    /\ IF retrieved.status # "completed"
       THEN pc' = "SystemExit" /\ files' = files
       ELSE IF retrieved.output_file_id = ""
       THEN /\ pc' = "SystemExit"
            /\ files' = IF retrieved.error_file_id # "" THEN files \cup {"errors"} ELSE files
       ELSE pc' = "returned" /\ files' = files \cup {"results"}
    /\ UNCHANGED << run_maps, tolerances, default_numeric_tolerance, final_rows,
                    disagreements, rows_before, calls, pipe_vars, call_args,
                    call_result, batch, retrieved >>

PollNext == CreateBatch \/ Progress \/ Retrieve \/ Sleep \/ Finish

PollSpec == PollInit /\ [][PollNext]_vars

\* the steps of submit_and_wait are taken as long as they can be: the
\* program runs on and time.sleep returns
PollFairSpec ==
    PollSpec /\ WF_vars(CreateBatch) /\ WF_vars(Retrieve) /\ WF_vars(Sleep) /\ WF_vars(Finish)

\* what submit_and_wait has done at each point of the call
WaitSafety ==
    /\ pc = "sleep" => retrieved.status \notin EndStatuses
    /\ pc \in {"ended", "returned", "SystemExit"} => retrieved.status \in EndStatuses
    /\ pc = "returned" => retrieved.status = "completed" /\ retrieved.output_file_id # ""
    /\ pc = "SystemExit" => retrieved.status # "completed" \/ retrieved.output_file_id = ""
    /\ "results" \in files <=> pc = "returned"

\* C30: submit_and_wait polls until the status is completed, failed,
\* expired or canceled; it writes the results file and returns only for a
\* completed batch with an output file id, and raises SystemExit without
\* writing the results file in every other end case; once the batch has an
\* end status the call comes to its end.
C30_SubmitAndWait ==
    /\ []WaitSafety
    /\ (batch # <<>> /\ batch.status \in EndStatuses) ~> (pc \in {"returned", "SystemExit"})

\* the batch completed with an output file: the call has returned with the
\* results file written and no other
C30_Witness ==
    /\ pc = "returned"
    /\ files = {"results"}
    /\ retrieved.status = "completed"
    /\ retrieved.output_file_id = "file-out"

====
